---------------------------- MODULE Spec2Model ----------------------------
(***************************************************************************)
(* A model of the zkstash SDK core: the grant utilities (src/src/utils.ts), *)
(* the ZkStash REST client's attestation verifier, instance grant set,      *)
(* grant signing, requests and searches, and memory integrity check, and    *)
(* the x402 payment wrapper around the MCP client's callTool.               *)
(*                                                                          *)
(* JavaScript strings are TLA+ strings; every other JavaScript value is a   *)
(* tagged record (JStr, JNum, JBool, JUndef, JNull, JArr, JObj), an object  *)
(* being the sequence of its <<key, value>> entries in insertion order.     *)
(***************************************************************************)
EXTENDS Integers, Sequences, FiniteSets, TLC

VARIABLES
    uop,    \* utilities: the function under application
    uin,    \* utilities: its argument
    uout,   \* utilities: its completion (a return or a throw), or Pending
    maxPayment,     \* MCP wrapper: the payment ceiling fixed by fromSigner
    paymentSigner,  \* MCP wrapper: the payer's network(s), fixed by fromSigner
    ppc,            \* callTool: where the running call is suspended
    params,         \* callTool: the caller's params
    invoked,        \* callTool: the requests passed to originalCallTool so far
    returned,       \* callTool: the results originalCallTool has returned
    headers,        \* callTool: the createPaymentHeader calls made, by requirement
    pret,           \* callTool: its completion
    pcalls,         \* callTool: the number of calls begun on this client
    proofs,         \* callTool: the payment headers generated on this client
    cachedPublicKey,  \* ZkStash: the cached attestation public key
    keyFetches,       \* ZkStash: requests made to the verification-key endpoint
    clockMs,          \* Date.now()
    vcalls,           \* verifyAttestation: the calls of each caller
    vcount,           \* verifyAttestation: the number of calls begun
    instanceGrants,   \* ZkStash: the grants stored in the instance
    glast,            \* addGrant / removeGrant: the last call and its completion
    gops,             \* addGrant / removeGrant: the number of calls made
    held,             \* getInstanceGrants: the array its caller was given
    clientSigner,     \* ZkStash: the signer of the client, if it has one
    cg,               \* createGrant / signGrant: the running call
    signed,           \* createGrant / signGrant: the messages its signer was given
    cgcount,          \* createGrant / signGrant: the number of calls begun
    apiKey,           \* ZkStash: the API key of the client, if it has one
    rq,               \* request: the running REST operation
    rqcount           \* request: the number of REST operations begun

utilVars == <<uop, uin, uout>>
payVars ==
    <<maxPayment, paymentSigner, ppc, params, invoked, returned, headers, pret, pcalls,
      proofs>>
verVars == <<cachedPublicKey, keyFetches, clockMs, vcalls, vcount>>
grantVars == <<instanceGrants, glast, gops, held>>
signVars == <<clientSigner, cg, signed, cgcount>>
restVars == <<apiKey, rq, rqcount>>
vars == <<utilVars, payVars, verVars, grantVars, signVars, restVars>>

otherThanUtil == <<payVars, verVars, grantVars, signVars, restVars>>
otherThanPay == <<utilVars, verVars, grantVars, signVars, restVars>>
otherThanVerifier == <<utilVars, payVars, grantVars, signVars, restVars>>
otherThanGrants == <<utilVars, payVars, verVars, signVars, restVars>>
otherThanSigning ==
    <<utilVars, payVars, grantVars, restVars, cachedPublicKey, keyFetches, vcalls, vcount>>
otherThanRest == <<utilVars, payVars, verVars, grantVars, signVars>>

-----------------------------------------------------------------------------
(* Completions of a call: a returned value or a thrown error.               *)

Ret(v) == [k |-> "return", v |-> v]
Throw(m) == [k |-> "throw", msg |-> m]
Pending == [k |-> "pending"]

-----------------------------------------------------------------------------
(* Strings.                                                                 *)

CharAt(s, i) == SubSeq(s, i, i)

\* String.prototype.startsWith
StartsWith(s, prefix) ==
    /\ Len(s) >= Len(prefix)
    /\ SubSeq(s, 1, Len(prefix)) = prefix

\* String.prototype.slice(n) for 0 <= n
SliceFrom(s, n) == SubSeq(s, n + 1, Len(s))

\* String.prototype.includes
Includes(s, part) ==
    \E i \in 1..(Len(s) - Len(part) + 1) : SubSeq(s, i, i + Len(part) - 1) = part

\* The concatenation of a sequence of strings (Array.prototype.join("")).
RECURSIVE ConcatAll(_)
ConcatAll(parts) ==
    IF Len(parts) = 0 THEN ""
    ELSE IF Len(parts) = 1 THEN parts[1]
    ELSE LET half == Len(parts) \div 2 IN
         ConcatAll(SubSeq(parts, 1, half))
           \o ConcatAll(SubSeq(parts, half + 1, Len(parts)))

\* The printable ASCII characters in code order: codes 32..95 and 97..126
\* (code 96, the grave accent, occurs in no text of the model).
PrintableLow ==
    " !\"#$%&'()*+,-./0123456789:;<=>?@ABCDEFGHIJKLMNOPQRSTUVWXYZ[\\]^_"
PrintableHigh == "abcdefghijklmnopqrstuvwxyz{|}~"

CodeOfIndex(i) == IF i <= Len(PrintableLow) THEN 31 + i ELSE 32 + i

Printable == PrintableLow \o PrintableHigh

PrintableChars == {CharAt(Printable, i) : i \in 1..Len(Printable)}

CodeTable ==
    [c \in PrintableChars |->
        CodeOfIndex(CHOOSE i \in 1..Len(Printable) : CharAt(Printable, i) = c)]

\* The UTF-16 code unit (here: the ASCII code) of a one-character string.
Code(c) == CodeTable[c]

\* The stand-in for every character that is not printable ASCII (U+FFFD for
\* a byte that is no UTF-8, a control character): no JSON token holds it.
OtherChar == "\f"

CharOf(code) ==
    IF code < 32 \/ code = 96 \/ code > 126 THEN OtherChar
    ELSE IF code < 96 THEN CharAt(PrintableLow, code - 31)
    ELSE CharAt(PrintableHigh, code - 96)

Digits == "0123456789"
IsDigit(c) == \E i \in 1..10 : CharAt(Digits, i) = c
DigitValue(c) == (CHOOSE i \in 1..10 : CharAt(Digits, i) = c) - 1

\* a < b on strings: comparison by code units, a proper prefix being smaller.
RECURSIVE StrLess(_, _)
StrLess(a, b) ==
    IF Len(b) = 0 THEN FALSE
    ELSE IF Len(a) = 0 THEN TRUE
    ELSE IF CharAt(a, 1) # CharAt(b, 1)
         THEN Code(CharAt(a, 1)) < Code(CharAt(b, 1))
         ELSE StrLess(SliceFrom(a, 1), SliceFrom(b, 1))

\* Number.prototype.toString for an integer.
RECURSIVE NatToString(_)
NatToString(n) ==
    IF n < 10 THEN CharAt(Digits, n + 1)
    ELSE NatToString(n \div 10) \o CharAt(Digits, (n % 10) + 1)

IntToString(n) == IF n < 0 THEN "-" \o NatToString(0 - n) ELSE NatToString(n)

-----------------------------------------------------------------------------
(* JavaScript values.                                                       *)

JStr(s) == [t |-> "string", s |-> s]
JNum(n) == [t |-> "number", n |-> n]
JObj(entries) == [t |-> "object", o |-> entries]
JUndef == [t |-> "undefined"]
JNull == [t |-> "null"]
JBool(b) == [t |-> "boolean", b |-> b]
JArr(items) == [t |-> "array", a |-> items]

IsObj(v) == v.t = "object"

\* Object.keys: the own keys in insertion order.
Keys(obj) == [i \in 1..Len(obj.o) |-> obj.o[i][1]]

HasKey(obj, key) == \E i \in 1..Len(obj.o) : obj.o[i][1] = key

\* obj[key]: undefined for a key the object does not have.
Get(obj, key) ==
    IF HasKey(obj, key)
    THEN obj.o[CHOOSE i \in 1..Len(obj.o) : obj.o[i][1] = key][2]
    ELSE JUndef

\* obj[key] = value: in place for an existing key, appended for a new one.
Set(obj, key, value) ==
    IF HasKey(obj, key)
    THEN JObj([i \in 1..Len(obj.o) |->
                 IF obj.o[i][1] = key THEN <<key, value>> ELSE obj.o[i]])
    ELSE JObj(Append(obj.o, <<key, value>>))

-----------------------------------------------------------------------------
(* JSON.stringify and JSON.parse.                                           *)

\* The quoted form of a string: the quote and the backslash are escaped.
EscapeChars(s) ==
    ConcatAll([i \in 1..Len(s) |->
        LET c == CharAt(s, i) IN
        IF c = "\"" THEN "\\\""
        ELSE IF c = "\\" THEN "\\\\"
        ELSE c])

Quote(s) == "\"" \o EscapeChars(s) \o "\""

\* JSON.stringify(value): no whitespace; an object's entries in its own key
\* order, an entry whose value is undefined left out; an array's elements in
\* their order, null for an element that is undefined.
RECURSIVE JSONStringify(_)
RECURSIVE StringifyEntries(_, _)
StringifyEntries(entries, first) ==
    IF Len(entries) = 0 THEN ""
    ELSE LET e == Head(entries) IN
         IF e[2].t = "undefined" THEN StringifyEntries(Tail(entries), first)
         ELSE (IF first THEN "" ELSE ",")
                \o Quote(e[1]) \o ":" \o JSONStringify(e[2])
                \o StringifyEntries(Tail(entries), FALSE)

JSONStringify(v) ==
    IF v.t = "string" THEN Quote(v.s)
    ELSE IF v.t = "number" THEN IntToString(v.n)
    ELSE IF v.t = "null" THEN "null"
    ELSE IF v.t = "boolean" THEN (IF v.b THEN "true" ELSE "false")
    ELSE IF v.t = "array"
    THEN "[" \o ConcatAll([i \in 1..Len(v.a) |->
                    (IF i = 1 THEN "" ELSE ",")
                      \o (IF v.a[i].t = "undefined" THEN "null"
                          ELSE JSONStringify(v.a[i]))]) \o "]"
    ELSE "{" \o StringifyEntries(v.o, TRUE) \o "}"

\* A parse step's outcome: the value read and the index after it, or a failure.
Parsed(v, i) == [ok |-> TRUE, v |-> v, i |-> i]
ParseFail == [ok |-> FALSE]

\* The string literal whose opening quote is at i - 1: characters from i up to
\* the closing quote, escapes undone.
RECURSIVE ParseStringBody(_, _, _)
ParseStringBody(text, i, acc) ==
    IF i > Len(text) THEN ParseFail
    ELSE LET c == CharAt(text, i) IN
         IF c = "\"" THEN Parsed(acc, i + 1)
         ELSE IF c = "\\"
              THEN IF i + 1 > Len(text) THEN ParseFail
                   ELSE LET d == CharAt(text, i + 1) IN
                        IF d = "\"" \/ d = "\\"
                        THEN ParseStringBody(text, i + 2, acc \o d)
                        ELSE ParseFail
              ELSE ParseStringBody(text, i + 1, acc \o c)

RECURSIVE ParseDigits(_, _, _)
ParseDigits(text, i, acc) ==
    IF i <= Len(text) /\ IsDigit(CharAt(text, i))
    THEN ParseDigits(text, i + 1, acc * 10 + DigitValue(CharAt(text, i)))
    ELSE Parsed(acc, i)

RECURSIVE ParseValue(_, _)
RECURSIVE ParseMembers(_, _, _)
RECURSIVE ParseElements(_, _, _)
\* The members of an object after its opening brace or after a comma.
ParseMembers(text, i, obj) ==
    IF i > Len(text) \/ CharAt(text, i) # "\"" THEN ParseFail
    ELSE LET key == ParseStringBody(text, i + 1, "") IN
         IF ~key.ok THEN ParseFail
         ELSE IF key.i > Len(text) \/ CharAt(text, key.i) # ":" THEN ParseFail
         ELSE LET val == ParseValue(text, key.i + 1) IN
              IF ~val.ok THEN ParseFail
              ELSE IF val.i > Len(text) THEN ParseFail
              ELSE LET next == Set(obj, key.v, val.v) IN
                   IF CharAt(text, val.i) = "}" THEN Parsed(next, val.i + 1)
                   ELSE IF CharAt(text, val.i) = ","
                        THEN ParseMembers(text, val.i + 1, next)
                        ELSE ParseFail

\* The elements of an array after its opening bracket or after a comma.
ParseElements(text, i, items) ==
    LET val == ParseValue(text, i) IN
    IF ~val.ok \/ val.i > Len(text) THEN ParseFail
    ELSE IF CharAt(text, val.i) = "]" THEN Parsed(JArr(Append(items, val.v)), val.i + 1)
    ELSE IF CharAt(text, val.i) = ","
         THEN ParseElements(text, val.i + 1, Append(items, val.v))
         ELSE ParseFail

ParseValue(text, i) ==
    IF i > Len(text) THEN ParseFail
    ELSE LET c == CharAt(text, i) IN
         IF c = "\""
         THEN LET s == ParseStringBody(text, i + 1, "") IN
              IF s.ok THEN Parsed(JStr(s.v), s.i) ELSE ParseFail
         ELSE IF c = "{"
         THEN IF i + 1 <= Len(text) /\ CharAt(text, i + 1) = "}"
              THEN Parsed(JObj(<<>>), i + 2)
              ELSE ParseMembers(text, i + 1, JObj(<<>>))
         ELSE IF IsDigit(c)
         THEN LET n == ParseDigits(text, i, 0) IN Parsed(JNum(n.v), n.i)
         ELSE IF c = "-"
         THEN IF i + 1 <= Len(text) /\ IsDigit(CharAt(text, i + 1))
              THEN LET n == ParseDigits(text, i + 1, 0) IN Parsed(JNum(0 - n.v), n.i)
              ELSE ParseFail
         ELSE IF c = "["
         THEN IF i + 1 <= Len(text) /\ CharAt(text, i + 1) = "]"
              THEN Parsed(JArr(<<>>), i + 2)
              ELSE ParseElements(text, i + 1, <<>>)
         ELSE IF i + 3 <= Len(text) /\ SubSeq(text, i, i + 3) = "null"
         THEN Parsed(JNull, i + 4)
         ELSE IF i + 3 <= Len(text) /\ SubSeq(text, i, i + 3) = "true"
         THEN Parsed(JBool(TRUE), i + 4)
         ELSE IF i + 4 <= Len(text) /\ SubSeq(text, i, i + 4) = "false"
         THEN Parsed(JBool(FALSE), i + 5)
         ELSE ParseFail

\* JSON.parse(text): the value, or a thrown SyntaxError (also for text left
\* over after the value).
JSONParse(text) ==
    LET r == ParseValue(text, 1) IN
    IF r.ok /\ r.i = Len(text) + 1 THEN Ret(r.v)
    ELSE Throw("SyntaxError")

-----------------------------------------------------------------------------
(* Buffer: UTF-8 bytes of a string, and base64 / base64url of bytes.        *)

\* Buffer.from(string): the bytes of its UTF-8 form (one per ASCII character).
BufferFromString(s) == [i \in 1..Len(s) |-> Code(CharAt(s, i))]

\* buffer.toString("utf-8")
BufferToString(bytes) == ConcatAll([i \in 1..Len(bytes) |-> CharOf(bytes[i])])

Base64Alphabet ==
    "ABCDEFGHIJKLMNOPQRSTUVWXYZabcdefghijklmnopqrstuvwxyz0123456789+/"
Base64UrlAlphabet ==
    "ABCDEFGHIJKLMNOPQRSTUVWXYZabcdefghijklmnopqrstuvwxyz0123456789-_"

\* The encoding of bytes: three bytes to four characters; the last group of
\* one or two bytes is padded with "=" in base64 and left short in base64url.
EncodeGroup(bytes, alphabet, pad) ==
    LET ch(n) == CharAt(alphabet, n + 1) IN
    IF Len(bytes) = 1
    THEN ch(bytes[1] \div 4) \o ch((bytes[1] % 4) * 16)
           \o (IF pad THEN "==" ELSE "")
    ELSE IF Len(bytes) = 2
    THEN ch(bytes[1] \div 4)
           \o ch((bytes[1] % 4) * 16 + bytes[2] \div 16)
           \o ch((bytes[2] % 16) * 4)
           \o (IF pad THEN "=" ELSE "")
    ELSE ch(bytes[1] \div 4)
           \o ch((bytes[1] % 4) * 16 + bytes[2] \div 16)
           \o ch((bytes[2] % 16) * 4 + bytes[3] \div 64)
           \o ch(bytes[3] % 64)

EncodeGroups(bytes, alphabet, pad) ==
    LET n == Len(bytes)
        last(g) == IF 3 * g <= n THEN 3 * g ELSE n
    IN  ConcatAll([g \in 1..((n + 2) \div 3) |->
            EncodeGroup(SubSeq(bytes, 3 * g - 2, last(g)), alphabet, pad)])

\* buffer.toString("base64") and buffer.toString("base64url")
ToBase64(bytes) == EncodeGroups(bytes, Base64Alphabet, TRUE)
ToBase64Url(bytes) == EncodeGroups(bytes, Base64UrlAlphabet, FALSE)

\* The six-bit value of a character of either alphabet, -1 for any other.
Sextet(c) ==
    IF \E i \in 1..64 : CharAt(Base64Alphabet, i) = c
    THEN (CHOOSE i \in 1..64 : CharAt(Base64Alphabet, i) = c) - 1
    ELSE IF c = "-" THEN 62
    ELSE IF c = "_" THEN 63
    ELSE -1

\* The leading run of characters that belong to either alphabet, as sextets:
\* decoding ends at the padding.
Sextets(s) ==
    LET stops == {i \in 1..Len(s) : Sextet(CharAt(s, i)) < 0}
        n == IF stops = {} THEN Len(s)
             ELSE (CHOOSE i \in stops : \A j \in stops : i <= j) - 1
    IN  [i \in 1..n |-> Sextet(CharAt(s, i))]

\* Byte j of the decoding, counted from 0: three bytes of every four sextets.
DecodedByte(sx, j) ==
    LET q == 4 * (j \div 3) IN
    IF j % 3 = 0 THEN sx[q + 1] * 4 + sx[q + 2] \div 16
    ELSE IF j % 3 = 1 THEN (sx[q + 2] % 16) * 16 + sx[q + 3] \div 4
    ELSE (sx[q + 3] % 4) * 64 + sx[q + 4]

DecodeGroups(sx) == [j \in 1..((Len(sx) * 6) \div 8) |-> DecodedByte(sx, j - 1)]

\* Buffer.from(string, "base64") and Buffer.from(string, "base64url"): both
\* accept the characters of both alphabets and never throw.
BufferFromBase64(s) == DecodeGroups(Sextets(s))

-----------------------------------------------------------------------------
(* Grant utilities (utils.ts).                                              *)

GRANT_MESSAGE_PREFIX == "zkstash:grant:v1:"
SHARE_CODE_PREFIX == "zkg1_"

\* Array.prototype.sort() with no comparator: ascending by code units.
RECURSIVE InsertSorted(_, _)
InsertSorted(sorted, key) ==
    IF Len(sorted) = 0 THEN <<key>>
    ELSE IF StrLess(key, Head(sorted)) THEN <<key>> \o sorted
    ELSE <<Head(sorted)>> \o InsertSorted(Tail(sorted), key)

RECURSIVE SortDefault(_)
SortDefault(keys) ==
    IF Len(keys) = 0 THEN <<>>
    ELSE InsertSorted(SortDefault(Tail(keys)), Head(keys))

\* Mutation: the keys are taken in insertion order, the sort left out.
MessageKeyOrderUnsorted(payload) == Keys(payload)

\* The key order buildGrantMessage copies the payload in.
MessageKeyOrder(payload) == SortDefault(Keys(payload))

\* The reduce of buildGrantMessage: copy each defined value, key by key.
RECURSIVE CopyDefined(_, _, _)
CopyDefined(payload, keys, acc) ==
    IF Len(keys) = 0 THEN acc
    ELSE LET value == Get(payload, Head(keys)) IN
         CopyDefined(payload, Tail(keys),
                     IF value # JUndef THEN Set(acc, Head(keys), value) ELSE acc)

buildGrantMessage(payload) ==
    LET sorted == CopyDefined(payload, MessageKeyOrder(payload), JObj(<<>>))
        canonical == JSONStringify(sorted)
    IN  GRANT_MESSAGE_PREFIX \o ToBase64(BufferFromString(canonical))

UnitLetters == {"s", "m", "h", "d", "w"}

\* Mutation: /^(\d*)([smhdw])$/, the digits optional.
DurationMatchesNoDigits(duration) ==
    /\ Len(duration) >= 1
    /\ \A i \in 1..(Len(duration) - 1) : IsDigit(CharAt(duration, i))
    /\ CharAt(duration, Len(duration)) \in UnitLetters

\* The match of /^(\d+)([smhdw])$/: one or more digits, then one unit letter,
\* then the end of the input.
DurationMatches(duration) ==
    /\ Len(duration) >= 2
    /\ \A i \in 1..(Len(duration) - 1) : IsDigit(CharAt(duration, i))
    /\ CharAt(duration, Len(duration)) \in UnitLetters

\* parseInt(text, 10) of a run of digits.
RECURSIVE parseInt(_)
parseInt(text) ==
    IF Len(text) = 0 THEN 0
    ELSE parseInt(SubSeq(text, 1, Len(text) - 1)) * 10
           + DigitValue(CharAt(text, Len(text)))

multipliers(unit) ==
    CASE unit = "s" -> 1
      [] unit = "m" -> 60
      [] unit = "h" -> 60 * 60
      [] unit = "d" -> 24 * 60 * 60
      [] unit = "w" -> 7 * 24 * 60 * 60

parseDuration(duration) ==
    IF ~DurationMatches(duration)
    THEN Throw("Invalid duration format: " \o duration
                 \o ". Use format like \"7d\", \"24h\", \"30m\"")
    ELSE LET value == parseInt(SubSeq(duration, 1, Len(duration) - 1))
             unit == CharAt(duration, Len(duration))
         IN  Ret(value * multipliers(unit))

\* The encoding grantToShareCode gives the JSON text.
ShareCodeBody(json) == ToBase64Url(BufferFromString(json))

grantToShareCode(grant) ==
    SHARE_CODE_PREFIX \o ShareCodeBody(JSONStringify(grant))

\* Mutation: the separator of the prefix is not looked at.
HasShareCodePrefixLoose(code) ==
    StartsWith(code, SubSeq(SHARE_CODE_PREFIX, 1, Len(SHARE_CODE_PREFIX) - 1))

\* The prefix test of grantFromShareCode.
HasShareCodePrefix(code) == StartsWith(code, SHARE_CODE_PREFIX)

\* Mutation: the slice starts one character early.
ShareCodeEncodedOffByOne(code) == SliceFrom(code, Len(SHARE_CODE_PREFIX) - 1)

\* code.slice(SHARE_CODE_PREFIX.length)
ShareCodeEncoded(code) == SliceFrom(code, Len(SHARE_CODE_PREFIX))

grantFromShareCode(code) ==
    IF ~HasShareCodePrefix(code)
    THEN Throw("Invalid share code: must start with " \o SHARE_CODE_PREFIX)
    ELSE LET encoded == ShareCodeEncoded(code)
             json == BufferToString(BufferFromBase64(encoded))
         IN  JSONParse(json)

-----------------------------------------------------------------------------
(* JavaScript values, continued: booleans, arrays, truthiness.              *)

Truthy(v) ==
    CASE v.t = "undefined" -> FALSE
      [] v.t = "null" -> FALSE
      [] v.t = "boolean" -> v.b
      [] v.t = "number" -> v.n # 0
      [] v.t = "string" -> v.s # ""
      [] OTHER -> TRUE

\* v?.[key]: undefined when v is no object.
OptGet(v, key) == IF v.t = "object" THEN Get(v, key) ELSE JUndef

-----------------------------------------------------------------------------
(* The MCP client's callTool wrapped for x402 payments (fromSigner).        *)

MaxCalls == 2

DefaultMaxPayment == 100000

\* payment?.maxValue ?? BigInt(0.1 * 10 ** 6)
MaxPaymentOf(maxValue) ==
    IF maxValue = JUndef THEN DefaultMaxPayment ELSE maxValue.n

\* A payment signer: its address and, for an EVM signer, the network its
\* chain id maps to (undefined when the signer carries no chain).
PaymentSigners ==
    {[address |-> "0xf39F", chainNetwork |-> JStr("base-sepolia")],
     [address |-> "0xf39F", chainNetwork |-> JUndef],
     [address |-> "So1ana", chainNetwork |-> JUndef]}

\* The network argument of the selection: ChainIdToNetwork[chain?.id] for an
\* EVM address, the two Solana networks otherwise.
NetworkOf(signer) ==
    IF StartsWith(signer.address, "0x") THEN signer.chainNetwork
    ELSE JArr(<<JStr("solana"), JStr("solana-devnet")>>)

NetworkMatches(requirement, network) ==
    IF network.t = "array"
    THEN \E i \in 1..Len(network.a) : network.a[i] = Get(requirement, "network")
    ELSE Get(requirement, "network") = network

\* The requirement chosen among those offered: the first whose network is the
\* payer's, the first offered when none is (or when the payer has no network).
selectPaymentRequirements(accepts, network) ==
    LET matching == {i \in 1..Len(accepts) : NetworkMatches(accepts[i], network)} IN
    IF network = JUndef \/ matching = {} THEN accepts[1]
    ELSE accepts[CHOOSE i \in matching : \A j \in matching : i <= j]

\* result._meta?.["x402/error"]
X402Error(result) == OptGet(OptGet(result, "_meta"), "x402/error")

\* Mutation: the error flag of the result is not looked at.
IsPaymentRequiredUnflagged(result) ==
    LET accepts == OptGet(X402Error(result), "accepts") IN
    accepts.t = "array" /\ Len(accepts.a) > 0

\* The test that opens the payment branch.
IsPaymentRequired(result) ==
    LET x402Error == X402Error(result)
        accepts == OptGet(x402Error, "accepts")
    IN  /\ Truthy(Get(result, "isError"))
        /\ Truthy(x402Error)
        /\ Truthy(accepts)
        /\ accepts.t = "array"
        /\ Len(accepts.a) > 0

\* BigInt(text): the integer a decimal text denotes; a SyntaxError otherwise.
BigInt(text) ==
    LET digits == IF StartsWith(text, "-") THEN SliceFrom(text, 1) ELSE text IN
    IF Len(digits) >= 1 /\ \A i \in 1..Len(digits) : IsDigit(CharAt(digits, i))
    THEN Ret(IF StartsWith(text, "-") THEN 0 - parseInt(digits) ELSE parseInt(digits))
    ELSE Throw("SyntaxError: Cannot convert " \o text \o " to a BigInt")

\* Mutation: the ceiling is not applied.
ExceedsCapNever(requiredAmount, ceiling) == FALSE

\* Mutation: the amount equal to the maximum is rejected as well.
ExceedsCapOrEqual(requiredAmount, ceiling) == requiredAmount >= ceiling

\* The cap gate: requiredAmount > maxPayment
ExceedsCap(requiredAmount, ceiling) == requiredAmount > ceiling

\* The result returned when the cap gate closes.
CapExceededResult(requiredAmount, ceiling) ==
    JObj(<< <<"isError", JBool(TRUE)>>,
            <<"content",
              JArr(<<JObj(<< <<"type", JStr("text")>>,
                             <<"text",
                               JStr("Payment required (" \o IntToString(requiredAmount)
                                      \o ") exceeds maximum allowed ("
                                      \o IntToString(ceiling) \o ")")>> >>)>>)>> >>)

\* A retry request whose _meta holds the payment header alone.
RetryParamsMetaOnly(p, paymentHeader) ==
    Set(p, "_meta", JObj(<< <<"x402/payment", JStr(paymentHeader)>> >>))

\* {...params, _meta: {...params._meta, "x402/payment": paymentHeader}}
RetryParams(p, paymentHeader) ==
    LET meta == IF Get(p, "_meta").t = "object" THEN Get(p, "_meta") ELSE JObj(<<>>)
    IN  Set(p, "_meta", Set(meta, "x402/payment", JStr(paymentHeader)))

\* A wrapper that compares the amount with the maximum before it looks at the
\* scheme.
AfterFirstAttemptCapFirst(result, ceiling, signer) ==
    IF ~IsPaymentRequired(result) THEN [do |-> "finish", with |-> Ret(result)]
    ELSE LET accepts == Get(X402Error(result), "accepts").a
             paymentRequirements == selectPaymentRequirements(accepts, NetworkOf(signer))
             requiredAmount == BigInt(Get(paymentRequirements, "maxAmountRequired").s)
         IN  IF ~Truthy(paymentRequirements)
             THEN [do |-> "finish", with |-> Ret(result)]
             ELSE IF requiredAmount.k = "throw"
             THEN [do |-> "finish", with |-> requiredAmount]
             ELSE IF ExceedsCap(requiredAmount.v, ceiling)
             THEN [do |-> "finish",
                   with |-> Ret(CapExceededResult(requiredAmount.v, ceiling))]
             ELSE IF Get(paymentRequirements, "scheme") # JStr("exact")
             THEN [do |-> "finish", with |-> Ret(result)]
             ELSE [do |-> "pay", with |-> paymentRequirements]

\* What the wrapper does with the first attempt's result: return a result,
\* throw, or go on to generate a payment header for a requirement.
AfterFirstAttempt(result, ceiling, signer) ==
    IF ~IsPaymentRequired(result) THEN [do |-> "finish", with |-> Ret(result)]
    ELSE LET accepts == Get(X402Error(result), "accepts").a
             paymentRequirements == selectPaymentRequirements(accepts, NetworkOf(signer))
         IN  IF ~Truthy(paymentRequirements)
                  \/ Get(paymentRequirements, "scheme") # JStr("exact")
             THEN [do |-> "finish", with |-> Ret(result)]
             ELSE LET requiredAmount ==
                          BigInt(Get(paymentRequirements, "maxAmountRequired").s)
                  IN  IF requiredAmount.k = "throw"
                      THEN [do |-> "finish", with |-> requiredAmount]
                      ELSE IF ExceedsCap(requiredAmount.v, ceiling)
                      THEN [do |-> "finish",
                            with |-> Ret(CapExceededResult(requiredAmount.v, ceiling))]
                      ELSE [do |-> "pay", with |-> paymentRequirements]

\* The requests, results and payment headers of the model.
Requirement(network, scheme, amount) ==
    JObj(<< <<"scheme", JStr(scheme)>>,
            <<"network", JStr(network)>>,
            <<"maxAmountRequired", JStr(amount)>> >>)

Requirements ==
    {Requirement(network, scheme, amount) :
        network \in {"base-sepolia", "solana-devnet"},
        scheme \in {"exact", "upto"},
        amount \in {"5", "10", "11", "100000", "100001", "1.5"}}

\* The lists of offers: one requirement, or two on different networks.
AcceptLists ==
    {<<r>> : r \in Requirements}
      \cup {<<r, s>> : r \in Requirements,
                       s \in {Requirement("base-sepolia", "exact", "5"),
                              Requirement("solana-devnet", "exact", "100001"),
                              Requirement("solana-devnet", "upto", "5")}}

ErrorResult(x402Error) ==
    JObj(<< <<"isError", JBool(TRUE)>>,
            <<"content", JArr(<<>>)>>,
            <<"_meta", JObj(<< <<"x402/error", x402Error>> >>)>> >>)

PaymentRequiredResult(accepts) ==
    ErrorResult(JObj(<< <<"accepts", JArr(accepts)>>,
                        <<"error", JStr("X-PAYMENT header is required")>> >>))

OrdinaryResults ==
    {JObj(<< <<"content", JArr(<<JStr("found")>>)>> >>),
     JObj(<< <<"isError", JBool(FALSE)>>, <<"content", JArr(<<JStr("found")>>)>> >>),
     JObj(<< <<"isError", JBool(TRUE)>>, <<"content", JArr(<<JStr("failed")>>)>> >>),
     ErrorResult(JObj(<< <<"accepts", JArr(<<>>)>> >>)),
     ErrorResult(JObj(<< <<"error", JStr("no offers")>> >>)),
     ErrorResult(JObj(<< <<"accepts", JStr("exact")>> >>)),
     ErrorResult(JStr("payment required")),
     JObj(<< <<"isError", JBool(FALSE)>>,
             <<"_meta", JObj(<< <<"x402/error",
                 JObj(<< <<"accepts",
                           JArr(<<Requirement("base-sepolia", "exact", "5")>>)>> >>)>> >>)>> >>)}

\* What originalCallTool may return to the first attempt.
ToolResults == OrdinaryResults \cup {PaymentRequiredResult(a) : a \in AcceptLists}

\* What it may return to the retry.
RetryResults ==
    OrdinaryResults
      \cup {PaymentRequiredResult(<<Requirement("base-sepolia", "exact", "5")>>),
            PaymentRequiredResult(<<Requirement("solana-devnet", "exact", "11")>>)}

PaymentHeaders == {"eyJ4NDAyVmVyc2lvbiI6MX0"}

CallParams ==
    {JObj(<< <<"name", JStr("memory_search")>>,
             <<"arguments", JObj(<< <<"query", JStr("coffee")>> >>)>> >> \o meta) :
        meta \in {<<>>,
                  << <<"_meta", JObj(<< <<"progressToken", JStr("t1")>> >>)>> >>,
                  << <<"_meta", JObj(<< <<"x402/payment", JStr("stale")>> >>)>> >>}}

\* The wrapper of a client just built, before any call.
PayInit ==
    /\ maxPayment \in {MaxPaymentOf(v) : v \in {JUndef, JNum(10)}}
    /\ paymentSigner \in PaymentSigners
    /\ ppc = "idle"
    /\ params = JUndef
    /\ invoked = <<>>
    /\ returned = <<>>
    /\ headers = <<>>
    /\ pret = Pending
    /\ pcalls = 0
    /\ proofs = 0

Finish(completion) ==
    /\ ppc' = "done"
    /\ pret' = completion

\* Mutation: the wrapper remembers the payment header of the call before and
\* sends it with the first attempt.
CallToolKeepsProof ==
    /\ ppc \in {"idle", "done"}
    /\ pcalls < MaxCalls
    /\ \E p \in CallParams :
          /\ params' = p
          /\ invoked' = <<IF Len(invoked) = 2
                          THEN Set(p, "_meta", Get(invoked[2], "_meta"))
                          ELSE p>>
    /\ returned' = <<>>
    /\ headers' = <<>>
    /\ pret' = Pending
    /\ ppc' = "first"
    /\ pcalls' = pcalls + 1
    /\ UNCHANGED <<maxPayment, paymentSigner, proofs, otherThanPay>>

\* client.callTool(p): the first attempt is invoked with the caller's params.
CallTool ==
    /\ ppc \in {"idle", "done"}
    /\ pcalls < MaxCalls
    /\ \E p \in CallParams :
          /\ params' = p
          /\ invoked' = <<p>>
    /\ returned' = <<>>
    /\ headers' = <<>>
    /\ pret' = Pending
    /\ ppc' = "first"
    /\ pcalls' = pcalls + 1
    /\ UNCHANGED <<maxPayment, paymentSigner, proofs, otherThanPay>>

\* The first attempt returns: the result is final, or a payment header is
\* asked for.
FirstReturns ==
    /\ ppc = "first"
    /\ \E result \in ToolResults :
          LET then == AfterFirstAttempt(result, maxPayment, paymentSigner) IN
          /\ returned' = Append(returned, result)
          /\ IF then.do = "finish"
             THEN Finish(then.with) /\ UNCHANGED headers
             ELSE /\ headers' = Append(headers, then.with)
                  /\ ppc' = "header"
                  /\ UNCHANGED pret
    /\ UNCHANGED <<maxPayment, paymentSigner, params, invoked, pcalls, proofs,
                   otherThanPay>>

\* Mutation: the failure of the first attempt is swallowed.
FirstThrowsSwallowed ==
    /\ ppc = "first"
    /\ Finish(Ret(JNull))
    /\ UNCHANGED <<maxPayment, paymentSigner, params, invoked, returned, headers,
                   pcalls, proofs, otherThanPay>>

\* The first attempt throws: the error propagates.
FirstThrows ==
    /\ ppc = "first"
    /\ Finish(Throw("callTool failed"))
    /\ UNCHANGED <<maxPayment, paymentSigner, params, invoked, returned, headers,
                   pcalls, proofs, otherThanPay>>

\* Mutation: a payment-required retry is paid for and retried again.
RetryReturnsAgain ==
    /\ ppc = "retry"
    /\ \E result \in RetryResults :
          /\ returned' = Append(returned, result)
          /\ IF IsPaymentRequired(result)
             THEN /\ headers' = Append(headers, Get(X402Error(result), "accepts").a[1])
                  /\ ppc' = "header"
                  /\ UNCHANGED pret
             ELSE Finish(Ret(result)) /\ UNCHANGED headers
    /\ UNCHANGED <<maxPayment, paymentSigner, params, invoked, pcalls, proofs,
                   otherThanPay>>

\* createPaymentHeader returns: the tool is invoked again, the header in _meta.
HeaderReturns ==
    /\ ppc = "header"
    /\ \E paymentHeader \in PaymentHeaders :
          invoked' = Append(invoked, RetryParams(params, paymentHeader))
    /\ proofs' = proofs + 1
    /\ ppc' = "retry"
    /\ UNCHANGED <<maxPayment, paymentSigner, params, returned, headers, pret,
                   pcalls, otherThanPay>>

\* createPaymentHeader throws: the error propagates.
HeaderThrows ==
    /\ ppc = "header"
    /\ Finish(Throw("createPaymentHeader failed"))
    /\ UNCHANGED <<maxPayment, paymentSigner, params, invoked, returned, headers,
                   pcalls, proofs, otherThanPay>>

\* The retry returns: its result is the call's result.
RetryReturns ==
    /\ ppc = "retry"
    /\ \E result \in RetryResults :
          /\ returned' = Append(returned, result)
          /\ Finish(Ret(result))
    /\ UNCHANGED <<maxPayment, paymentSigner, params, invoked, headers, pcalls,
                   proofs, otherThanPay>>

\* The retry throws: the error propagates.
RetryThrows ==
    /\ ppc = "retry"
    /\ Finish(Throw("callTool failed"))
    /\ UNCHANGED <<maxPayment, paymentSigner, params, invoked, returned, headers,
                   pcalls, proofs, otherThanPay>>

-----------------------------------------------------------------------------
(* Inputs of the utilities.                                                 *)

MaxDurationLen == 3

RECURSIVE StringsUpTo(_, _)
\* Every string of at most n characters of the given set.
StringsUpTo(chars, n) ==
    IF n = 0 THEN {""}
    ELSE LET shorter == StringsUpTo(chars, n - 1) IN
         shorter \cup {s \o c : s \in shorter, c \in chars}

DurationChars == {"0", "1", "7", "s", "m", "h", "d", "w", "x", ".", "-", " "}

DurationTexts ==
    StringsUpTo(DurationChars, MaxDurationLen)
      \cup {"30s", "5m", "2h", "7d", "2w", "10d", "007d", "invalid", "7x",
            "1h30m", "1.5h", "+7d", "7D", "7d\n", "7 d", "24h", "30m"}

\* The one-to-one sequences over a set: its elements in every order.
Orders(S) ==
    {q \in [1..Cardinality(S) -> S] : \A i, j \in 1..Cardinality(S) :
                                          q[i] = q[j] => i = j}

Reverse(q) == [i \in 1..Len(q) |-> q[Len(q) + 1 - i]]

\* The values a payload may carry under an optional key: none (the key is
\* left out), the key present with the value undefined, or a string.
AbsentKey == [t |-> "absent"]

PayloadFields ==
    [f : {JStr("0xAAA")},
     g : {JStr("0xBBB")},
     a : {AbsentKey, JUndef, JStr("agent-1")},
     u : {AbsentKey, JUndef, JStr("t\"1")},
     e : {JNum(1735689600), JNum(17)}]

PresentKeys(fields) == {k \in {"f", "g", "a", "u", "e"} : fields[k] # AbsentKey}

\* The payload objects with the given fields, one for each key order.
PayloadsOf(fields) ==
    {JObj([i \in 1..Len(q) |-> <<q[i], fields[q[i]]>>]) :
        q \in Orders(PresentKeys(fields))}

GrantPayloads == UNION {PayloadsOf(fields) : fields \in PayloadFields}

\* The signed grants of the share-code round trip: payloads in the key order
\* signGrant and the tests build them in, with either family's signature.
GrantOf(fields, s, c) ==
    JObj(<< <<"p", JObj(SelectSeq(<< <<"f", fields.f>>, <<"g", fields.g>>,
                                      <<"a", fields.a>>, <<"u", fields.u>>,
                                      <<"e", fields.e>> >>,
                                   LAMBDA kv : kv[2] # AbsentKey))>>,
             <<"s", JStr(s)>>,
             <<"c", JStr(c)>> >>)

ShareGrantFields ==
    [f : {JStr("0xAAA"), JStr("So1\\ana")},
     g : {JStr("0xBBB")},
     a : {AbsentKey, JUndef, JStr("agent-1")},
     u : {AbsentKey, JUndef, JStr("t\"1")},
     e : {JNum(1735689600), JNum(0), JNum(-5)}]

ShareGrants ==
    {GrantOf(fields, sc[1], sc[2]) :
        fields \in ShareGrantFields,
        sc \in {<<"0x123456", "evm">>, <<"c2ln+/8=", "sol">>}}

-----------------------------------------------------------------------------
(* stableStringify and verifyEd25519 (utils.ts).                            *)

Join(parts, sep) ==
    ConcatAll([i \in 1..Len(parts) |-> (IF i = 1 THEN "" ELSE sep) \o parts[i]])

customOrder == <<"id", "kind", "tags">>

\* Array.prototype.indexOf
IndexOf(q, x) ==
    IF \E i \in 1..Len(q) : q[i] = x
    THEN (CHOOSE i \in 1..Len(q) : q[i] = x) - 1
    ELSE -1

\* Mutation: every key is compared by code units.
StableBeforeByCodeUnits(a, b) == StrLess(a, b)

\* The comparator of stableStringify's sort says a comes before b.
StableBefore(a, b) ==
    LET aIndex == IndexOf(customOrder, a)
        bIndex == IndexOf(customOrder, b)
    IN  IF aIndex # -1 /\ bIndex # -1 THEN aIndex < bIndex
        ELSE IF aIndex # -1 THEN TRUE
        ELSE IF bIndex # -1 THEN FALSE
        ELSE StrLess(a, b)

\* Object.keys(obj).sort(comparator)
StableKeys(obj) ==
    LET keys == {obj.o[i][1] : i \in 1..Len(obj.o)} IN
    [i \in 1..Len(obj.o) |->
        CHOOSE k \in keys :
            Cardinality({j \in keys : j # k /\ StableBefore(j, k)}) = i - 1]

\* stableStringify(obj): JSON.stringify for what is no object; an array's
\* elements in their order (join leaves an undefined one empty); an object's
\* keys in the comparator's order (the template writes "undefined" for an
\* undefined value).
RECURSIVE stableStringify(_)
stableStringify(obj) ==
    IF obj.t = "array"
    THEN "[" \o Join([i \in 1..Len(obj.a) |->
                        IF obj.a[i].t = "undefined" THEN ""
                        ELSE stableStringify(obj.a[i])], ",") \o "]"
    ELSE IF obj.t # "object" THEN JSONStringify(obj)
    ELSE LET sortedKeys == StableKeys(obj) IN
         "{" \o Join([i \in 1..Len(sortedKeys) |->
                        Quote(sortedKeys[i]) \o ":"
                          \o (IF Get(obj, sortedKeys[i]).t = "undefined"
                              THEN "undefined"
                              ELSE stableStringify(Get(obj, sortedKeys[i])))], ",")
             \o "}"

HexLower == "0123456789abcdef"
HexUpper == "0123456789ABCDEF"
IsHex(c) == \E i \in 1..16 : CharAt(HexLower, i) = c \/ CharAt(HexUpper, i) = c
HexValue(c) ==
    (CHOOSE i \in 1..16 : CharAt(HexLower, i) = c \/ CharAt(HexUpper, i) = c) - 1

\* Buffer.from(text, "hex"): the bytes of the pairs of hex digits, up to the
\* first pair that is none.
BufferFromHex(text) ==
    LET pairs == {k \in 0..(Len(text) \div 2) :
                     \A i \in 1..(2 * k) : IsHex(CharAt(text, i))}
        n == CHOOSE k \in pairs : \A j \in pairs : j <= k
    IN  [i \in 1..n |->
            16 * HexValue(CharAt(text, 2 * i - 1)) + HexValue(CharAt(text, 2 * i))]

ByteToHex(b) == CharAt(HexLower, (b \div 16) + 1) \o CharAt(HexLower, (b % 16) + 1)

RECURSIVE SumBytes(_, _, _)
SumBytes(bytes, lo, hi) ==
    IF lo > hi THEN 0
    ELSE IF lo = hi THEN bytes[lo]
    ELSE LET mid == (lo + hi) \div 2 IN
         SumBytes(bytes, lo, mid) + SumBytes(bytes, mid + 1, hi)

\* ed.verify of @noble/ed25519, in small: a public key is one byte, the
\* signature of a message under it is the key byte followed by the message's
\* checksum byte. Bytes of another length are rejected with an error, as the
\* library rejects a signature that is not 64 bytes or a key that is not 32.
MessageDigest(messageBytes) == SumBytes(messageBytes, 1, Len(messageBytes)) % 256

EdVerify(sigBytes, messageBytes, pubKeyBytes) ==
    IF Len(sigBytes) # 2 \/ Len(pubKeyBytes) # 1
    THEN Throw("Error: invalid length")
    ELSE Ret(sigBytes = <<pubKeyBytes[1], MessageDigest(messageBytes)>>)

\* The try block of verifyEd25519.
VerifyAttempt(signature, message, publicKey) ==
    IF signature.t # "string" \/ publicKey.t # "string"
    THEN Throw("TypeError: Cannot read properties of undefined (reading 'slice')")
    ELSE EdVerify(BufferFromHex(SliceFrom(signature.s, 2)),
                  BufferFromString(message),
                  BufferFromHex(SliceFrom(publicKey.s, 2)))

\* Mutation: an error of the attempt is not caught.
verifyEd25519Uncaught(signature, message, publicKey) ==
    VerifyAttempt(signature, message, publicKey)

\* verifyEd25519: the attempt's answer, false when the attempt throws.
verifyEd25519(signature, message, publicKey) ==
    LET attempt == VerifyAttempt(signature, message, publicKey) IN
    IF attempt.k = "throw" THEN Ret(FALSE) ELSE attempt

-----------------------------------------------------------------------------
(* ZkStash.verifyAttestation.                                               *)

MaxVerifyCalls == 2
StartMs == 2500
TickMs == 500
MaxTicks == 1

\* The callers whose verifyAttestation calls may overlap.
Callers == {"a", "b"}

\* Math.floor(Date.now() / 1000)
NowSeconds(ms) == ms \div 1000

\* Mutation: no attestation is taken for expired.
IsExpiredNever(attestation, now) == FALSE

\* Mutation: an attestation is expired from the second of its expiry on.
IsExpiredFromExpiry(attestation, now) == Get(attestation, "expiresAt").n <= now

\* attestation.expiresAt < now
IsExpired(attestation, now) == Get(attestation, "expiresAt").n < now

ExpiredResult ==
    JObj(<< <<"valid", JBool(FALSE)>>, <<"reason", JStr("attestation_expired")>> >>)

\* { valid, reason: valid ? null : "invalid_signature" }
VerificationResult(valid) ==
    JObj(<< <<"valid", JBool(valid)>>,
            <<"reason", IF valid THEN JNull ELSE JStr("invalid_signature")>> >>)

\* The local verification that ends verifyAttestation.
VerifyLocally(attestation, signature, key) ==
    LET message == stableStringify(attestation)
        valid == verifyEd25519(signature, message, key)
    IN  IF valid.k = "throw" THEN valid ELSE Ret(VerificationResult(valid.v))

\* The attestations, signatures and key responses of the model.
AttestationOf(claim, expiresAt) ==
    JObj(<< <<"claim", JStr(claim)>>,
            <<"params", JObj(<< <<"query", JStr("tea")>>,
                                <<"filters", JObj(<< <<"agentId", JStr("a1")>>,
                                                     <<"kind", JStr("note")>> >>)>> >>)>>,
            <<"expiresAt", JNum(expiresAt)>>,
            <<"issuer", JStr("zkstash.ai")>> >>)

Attestations ==
    {AttestationOf("has_memories_matching", 2),
     AttestationOf("memory_count_at_least", 3)}

ServerKey == "0xa1"
RotatedKey == "0xB2"

\* The signature the holder of a key's secret makes over an attestation.
SignatureBy(key, attestation) ==
    "0x" \o ByteToHex(BufferFromHex(SliceFrom(key, 2))[1])
         \o ByteToHex(MessageDigest(BufferFromString(stableStringify(attestation))))

SignaturesFor(attestation) ==
    {JStr(SignatureBy(ServerKey, attestation)),
     JStr("0xa1"),
     JUndef}

\* The arguments of the calls: an attestation with a signature that is the
\* server's over it, too short, or missing.
VerifyArguments ==
    UNION {{<<attestation, signature>> : signature \in SignaturesFor(attestation)} :
              attestation \in Attestations}

\* data.attestationPublicKey of the responses the key endpoint may give: a
\* key, another key, a text that is no key, no key at all.
KeyResponses == {JStr(ServerKey), JStr(RotatedKey), JStr("0xzz"), JUndef}

NoCall ==
    [pc |-> "idle", attestation |-> JUndef, signature |-> JUndef, now |-> 0,
     fetch |-> "none", key |-> JUndef, out |-> Pending]

\* client.verifyAttestation(attestation, signature), up to its first await:
\* the expiry check, then either the key request or, with a key cached, the
\* local verification.
VerifyAttestation(c) ==
    /\ vcalls[c].pc \in {"idle", "done"}
    /\ vcount < MaxVerifyCalls
    /\ vcount' = vcount + 1
    /\ \E arguments \in VerifyArguments :
          LET attestation == arguments[1]
              signature == arguments[2]
              now == NowSeconds(clockMs)
              call == [NoCall EXCEPT !.attestation = attestation,
                                     !.signature = signature,
                                     !.now = now]
          IN  IF IsExpired(attestation, now)
              THEN /\ vcalls' = [vcalls EXCEPT ![c] =
                                   [call EXCEPT !.pc = "done",
                                                !.out = Ret(ExpiredResult)]]
                   /\ UNCHANGED <<cachedPublicKey, keyFetches>>
              ELSE IF ~Truthy(cachedPublicKey)
              THEN /\ keyFetches' = keyFetches + 1
                   /\ vcalls' = [vcalls EXCEPT ![c] =
                                   [call EXCEPT !.pc = "fetching",
                                                !.fetch = "pending"]]
                   /\ UNCHANGED cachedPublicKey
              ELSE /\ vcalls' = [vcalls EXCEPT ![c] =
                                   [call EXCEPT
                                      !.pc = "done",
                                      !.key = cachedPublicKey,
                                      !.out = VerifyLocally(attestation, signature,
                                                            cachedPublicKey)]]
                   /\ UNCHANGED <<cachedPublicKey, keyFetches>>
    /\ UNCHANGED <<clockMs, otherThanVerifier>>

\* The key request and the reading of its body complete: the key of the body
\* is cached and the attestation verified against the cache.
KeyFetchReturns(c) ==
    /\ vcalls[c].pc = "fetching"
    /\ \E attestationPublicKey \in KeyResponses :
          /\ cachedPublicKey' = attestationPublicKey
          /\ vcalls' = [vcalls EXCEPT ![c] =
                          [vcalls[c] EXCEPT
                             !.pc = "done",
                             !.fetch = "returned",
                             !.key = attestationPublicKey,
                             !.out = VerifyLocally(vcalls[c].attestation,
                                                   vcalls[c].signature,
                                                   attestationPublicKey)]]
    /\ UNCHANGED <<keyFetches, clockMs, vcount, otherThanVerifier>>

\* The key request, or the reading of its body, fails: the call rejects.
KeyFetchThrows(c) ==
    /\ vcalls[c].pc = "fetching"
    /\ vcalls' = [vcalls EXCEPT ![c] =
                    [@ EXCEPT !.pc = "done",
                              !.fetch = "failed",
                              !.out = Throw("TypeError: fetch failed")]]
    /\ UNCHANGED <<cachedPublicKey, keyFetches, clockMs, vcount, otherThanVerifier>>

\* Time passes.
Tick ==
    /\ clockMs + TickMs <= StartMs + MaxTicks * TickMs
    /\ clockMs' = clockMs + TickMs
    /\ UNCHANGED <<cachedPublicKey, keyFetches, vcalls, vcount, otherThanVerifier>>

\* The verifier of a client just constructed.
VerifierInit ==
    /\ cachedPublicKey = JNull
    /\ keyFetches = 0
    /\ clockMs = StartMs
    /\ vcalls = [c \in Callers |-> NoCall]
    /\ vcount = 0

-----------------------------------------------------------------------------
(* ZkStash.addGrant, removeGrant, getInstanceGrants.                        *)

MaxGrantOps == 3

\* grant.p, a TypeError when grant is null or undefined.
PayloadOf(grant) ==
    IF grant.t \in {"undefined", "null"}
    THEN Throw("TypeError: Cannot read properties of " \o grant.t \o " (reading 'p')")
    ELSE Ret(OptGet(grant, "p"))

\* grant.p.f can be read.
PayloadReadable(grant) ==
    /\ PayloadOf(grant).k = "return"
    /\ PayloadOf(grant).v.t \notin {"undefined", "null"}

\* The comparison of the revision without subjects (client.ts:881-888): f,
\* g, a and e are the same.
SamePayloadWithoutSubject(g, grant) ==
    \A key \in {"f", "g", "a", "e"} :
        OptGet(PayloadOf(g).v, key) = OptGet(PayloadOf(grant).v, key)

\* The comparison of addGrant and removeGrant: f, g, a, u and e are the same.
SamePayload(g, grant) ==
    \A key \in {"f", "g", "a", "u", "e"} :
        OptGet(PayloadOf(g).v, key) = OptGet(PayloadOf(grant).v, key)

\* this.instanceGrants.some(...): the first stored grant that ends the scan,
\* by a match or by a read that throws; 0 when the scan reaches the end.
ScanEnd(stored, grant) ==
    LET ends == {i \in 1..Len(stored) :
                    \/ ~PayloadReadable(stored[i])
                    \/ ~PayloadReadable(grant)
                    \/ SamePayload(stored[i], grant)}
    IN  IF ends = {} THEN 0 ELSE CHOOSE i \in ends : \A j \in ends : i <= j

\* addGrant(grantOrCode): the completion and the grants stored afterwards.
addGrant(stored, grantOrCode) ==
    LET decoded == IF grantOrCode.t = "string"
                   THEN grantFromShareCode(grantOrCode.s)
                   ELSE Ret(grantOrCode)
    IN  IF decoded.k = "throw" THEN [out |-> decoded, grants |-> stored]
        ELSE LET grant == decoded.v
                 at == ScanEnd(stored, grant)
             IN  IF at = 0
                 THEN [out |-> Ret(JUndef), grants |-> Append(stored, grant)]
                 ELSE IF ~PayloadReadable(stored[at]) \/ ~PayloadReadable(grant)
                 THEN [out |-> Throw("TypeError: Cannot read properties of undefined (reading 'f')"),
                       grants |-> stored]
                 ELSE [out |-> Ret(JUndef), grants |-> stored]

\* removeGrant(grant): the completion and the grants stored afterwards.
removeGrant(stored, grant) ==
    IF stored # <<>> /\ (~PayloadReadable(grant)
                           \/ \E i \in 1..Len(stored) : ~PayloadReadable(stored[i]))
    THEN [out |-> Throw("TypeError: Cannot read properties of undefined (reading 'f')"),
          grants |-> stored]
    ELSE [out |-> Ret(JUndef),
          grants |-> SelectSeq(stored, LAMBDA g : ~SamePayload(g, grant))]

\* The grants, share codes and other strings handed to the client.
ClientGrants ==
    {GrantOf([f |-> JStr("0xAAA"), g |-> JStr("0xBBB"), a |-> JStr("agent-1"),
              u |-> AbsentKey, e |-> JNum(1735689600)], "0x123456", "evm"),
     GrantOf([f |-> JStr("0xAAA"), g |-> JStr("0xBBB"), a |-> JStr("agent-1"),
              u |-> AbsentKey, e |-> JNum(1735689600)], "0x654321", "evm"),
     GrantOf([f |-> JStr("0xAAA"), g |-> JStr("0xBBB"), a |-> AbsentKey,
              u |-> JStr("tenant-1"), e |-> JNum(17)], "c2ln+/8=", "sol"),
     GrantOf([f |-> JStr("0xAAA"), g |-> JStr("0xBBB"), a |-> AbsentKey,
              u |-> JStr("tenant-2"), e |-> JNum(17)], "c2ln+/8=", "sol")}

ShareCodes == {grantToShareCode(g) : g \in ClientGrants}

\* Strings that do not begin with the share-code prefix.
UnprefixedStrings ==
    {"", "z", "zkg1", "zkg1-", "zkg_1abc", "ZKG1_eyJwIjp7fX0", " zkg1_eyJwIjp7fX0",
     "invalid_code", "eyJwIjp7fX0", "Xzkg1_"}
      \cup {SliceFrom(code, Len(SHARE_CODE_PREFIX)) : code \in ShareCodes}
      \cup {SliceFrom(code, 1) : code \in ShareCodes}

\* Strings that begin with the prefix and carry no grant: an empty body, a
\* body that is no JSON, the JSON of {} and of null.
MalformedCodes == {"zkg1_", "zkg1_!!!", "zkg1_e30", "zkg1_bnVsbA"}

AddGrantInputs ==
    ClientGrants
      \cup {JStr(s) : s \in ShareCodes \cup UnprefixedStrings \cup MalformedCodes}

NoGrantCall == [op |-> "none", arg |-> JUndef, before |-> <<>>, out |-> Pending]

AddGrantOf(inputs) ==
    /\ gops < MaxGrantOps
    /\ gops' = gops + 1
    /\ \E grantOrCode \in inputs :
          LET done == addGrant(instanceGrants, grantOrCode) IN
          /\ instanceGrants' = done.grants
          /\ glast' = [op |-> "addGrant", arg |-> grantOrCode,
                       before |-> instanceGrants, out |-> done.out]
    /\ UNCHANGED <<held, otherThanGrants>>

AddGrant == AddGrantOf(AddGrantInputs)

RemoveGrantOf(grants) ==
    /\ gops < MaxGrantOps
    /\ gops' = gops + 1
    /\ \E grant \in grants :
          LET done == removeGrant(instanceGrants, grant) IN
          /\ instanceGrants' = done.grants
          /\ glast' = [op |-> "removeGrant", arg |-> grant,
                       before |-> instanceGrants, out |-> done.out]
    /\ UNCHANGED <<held, otherThanGrants>>

RemoveGrant == RemoveGrantOf(ClientGrants)

\* Mutation: the instance's own array is returned.
getInstanceGrantsItself(stored) == [array |-> stored, own |-> TRUE, touched |-> FALSE]

\* return [...this.instanceGrants]: a new array of the stored grants. own
\* tells whether the caller holds the instance's own array.
getInstanceGrants(stored) == [array |-> stored, own |-> FALSE, touched |-> FALSE]

\* client.getInstanceGrants()
GetInstanceGrants ==
    /\ gops < MaxGrantOps
    /\ gops' = gops + 1
    /\ held' = getInstanceGrants(instanceGrants)
    /\ glast' = [op |-> "getInstanceGrants", arg |-> JUndef,
                 before |-> instanceGrants, out |-> Ret(JArr(instanceGrants))]
    /\ UNCHANGED <<instanceGrants, otherThanGrants>>

\* A grant the caller puts into the array it was given.
PushedGrant ==
    GrantOf([f |-> JStr("0xD"), g |-> JStr("0xB"), a |-> AbsentKey,
             u |-> AbsentKey, e |-> JNum(5)], "0x9", "evm")

\* What the caller may make of the array it was given: empty it, push a
\* grant onto it, put a grant in the place of its first element.
ModifiedArrays(array) ==
    {<<>>, Append(array, PushedGrant)}
      \cup (IF array = <<>> THEN {} ELSE {<<PushedGrant>> \o Tail(array)})

\* The caller modifies the array getInstanceGrants returned: the instance's
\* array changes with it only if it is that very array.
ModifyReturned ==
    /\ held # JUndef
    /\ ~held.touched
    /\ \E array \in ModifiedArrays(held.array) \ {held.array} :
          /\ held' = [held EXCEPT !.array = array, !.touched = TRUE]
          /\ instanceGrants' = IF held.own THEN array ELSE instanceGrants
    /\ UNCHANGED <<glast, gops, otherThanGrants>>

\* The grants of a client just constructed.
GrantsInit ==
    /\ instanceGrants = <<>>
    /\ glast = NoGrantCall
    /\ gops = 0
    /\ held = JUndef

-----------------------------------------------------------------------------
(* signGrant (utils.ts) and ZkStash.createGrant.                            *)

MaxCreateCalls == 2

\* The signers: an EVM account and a Solana key pair, by address.
Signers == {[address |-> "0xf39F"], [address |-> "So1ana"]}

\* What signMessage gives an EVM signer's caller, and what signWithSolana
\* makes of the bytes a Solana signer returns.
SignaturesOf(isEvm) ==
    IF isEvm THEN {"0x1b2c"} ELSE {ToBase64(<<115, 105, 103, 255>>)}

\* Mutation: an f of the caller's payload is kept.
SignGrantBeginKeepsF(signer, payload) ==
    LET address == signer.address
        isEvm == StartsWith(address, "0x")
        completePayload == IF HasKey(payload, "f") THEN payload
                           ELSE Set(payload, "f", JStr(address))
    IN  [isEvm |-> isEvm,
         completePayload |-> completePayload,
         message |-> buildGrantMessage(completePayload)]

\* signGrant up to its await: the payload completed with the signer's address
\* and the message handed to the signer.
SignGrantBegin(signer, payload) ==
    LET address == signer.address
        isEvm == StartsWith(address, "0x")
        completePayload == Set(payload, "f", JStr(address))
    IN  [isEvm |-> isEvm,
         completePayload |-> completePayload,
         message |-> buildGrantMessage(completePayload)]

\* signGrant after its await: the signed grant.
SignedGrantOf(completePayload, signature, isEvm) ==
    JObj(<< <<"p", completePayload>>,
            <<"s", JStr(signature)>>,
            <<"c", JStr(IF isEvm THEN "evm" ELSE "sol")>> >>)

\* The default lifetime of a grant: 7 * 24 * 60 * 60
DefaultGrantSeconds == 604800

\* Mutation: the given expiry is taken whatever its value.
ExpiryGivenAlways(expiresAt) == expiresAt.t # "undefined"

\* if (options.expiresAt)
ExpiryGiven(expiresAt) == Truthy(expiresAt)

\* The expiry createGrant computes: a number of seconds, or the error of
\* parseDuration.
ExpiryOf(options, nowMs) ==
    LET now == nowMs \div 1000 IN
    IF ExpiryGiven(Get(options, "expiresAt")) THEN Ret(Get(options, "expiresAt").n)
    ELSE IF Truthy(Get(options, "expiresIn"))
    THEN LET seconds == IF Get(options, "expiresIn").t = "number"
                        THEN Ret(Get(options, "expiresIn").n)
                        ELSE parseDuration(Get(options, "expiresIn").s)
         IN  IF seconds.k = "throw" THEN seconds ELSE Ret(now + seconds.v)
    ELSE Ret(now + DefaultGrantSeconds)

\* The payload createGrant hands to signGrant.
CreatePayload(options, expiresAt) ==
    JObj(<< <<"g", Get(options, "grantee")>>,
            <<"a", Get(options, "agentId")>>,
            <<"u", Get(options, "subjectId")>>,
            <<"e", JNum(expiresAt)>> >>)

\* The options of createGrant and the payloads of signGrant in the model.
OptionsOf(fields) ==
    JObj(SelectSeq(<< <<"grantee", fields.grantee>>, <<"agentId", fields.agentId>>,
                      <<"expiresAt", fields.expiresAt>>,
                      <<"expiresIn", fields.expiresIn>> >>,
                   LAMBDA kv : kv[2] # AbsentKey))

CreateGrantOptions ==
    {OptionsOf(fields) :
        fields \in [grantee : {JStr("0xBBB"), JStr(""), AbsentKey},
                    agentId : {JStr("agent-1"), AbsentKey},
                    expiresAt : {JNum(1735689600), JNum(0), AbsentKey},
                    expiresIn : {JStr("7d"), JStr("1h30m"), JStr(""), JNum(3600),
                                 JNum(0), AbsentKey}]}

SignPayloads ==
    {JObj(<< <<"g", JStr("0xBBB")>>, <<"e", JNum(1735689600)>> >>),
     JObj(<< <<"g", JStr("0xBBB")>>, <<"a", JStr("researcher")>>,
             <<"e", JNum(1735689600)>> >>),
     JObj(<< <<"f", JStr("0xEVE")>>, <<"g", JStr("0xBBB")>>,
             <<"e", JNum(1735689600)>> >>),
     JObj(<< <<"g", JStr("0xBBB")>>, <<"e", JNum(17)>>, <<"f", JStr("So1ana")>> >>)}

NoSigning ==
    [pc |-> "idle", op |-> "none", signer |-> JUndef, input |-> JUndef,
     isEvm |-> FALSE, payload |-> JUndef, out |-> Pending]

\* client.createGrant(options), up to the await inside signGrant or to the
\* error that ends it before.
CreateGrantOf(inputs) ==
    /\ cg.pc \in {"idle", "done"}
    /\ cgcount < MaxCreateCalls
    /\ cgcount' = cgcount + 1
    /\ \E options \in inputs :
          LET call == [NoSigning EXCEPT !.op = "createGrant",
                                        !.signer = clientSigner,
                                        !.input = options]
              expiresAt == ExpiryOf(options, clockMs)
          IN  IF clientSigner = JUndef
              THEN /\ cg' = [call EXCEPT
                               !.pc = "done",
                               !.out = Throw("Signer required to create grants. "
                                               \o "Use fromPrivateKey or fromSigner.")]
                   /\ signed' = <<>>
              ELSE IF expiresAt.k = "throw"
              THEN /\ cg' = [call EXCEPT !.pc = "done", !.out = expiresAt]
                   /\ signed' = <<>>
              ELSE LET begun == SignGrantBegin(clientSigner,
                                               CreatePayload(options, expiresAt.v))
                   IN  /\ cg' = [call EXCEPT !.pc = "signing",
                                             !.isEvm = begun.isEvm,
                                             !.payload = begun.completePayload]
                       /\ signed' = <<begun.message>>
    /\ UNCHANGED <<clientSigner, clockMs, otherThanSigning>>

CreateGrant == CreateGrantOf(CreateGrantOptions)

\* signGrant(signer, payload) called on its own, up to its await.
SignGrant ==
    /\ cg.pc \in {"idle", "done"}
    /\ cgcount < MaxCreateCalls
    /\ cgcount' = cgcount + 1
    /\ \E signer \in Signers, payload \in SignPayloads :
          LET begun == SignGrantBegin(signer, payload) IN
          /\ cg' = [NoSigning EXCEPT !.pc = "signing",
                                     !.op = "signGrant",
                                     !.signer = signer,
                                     !.input = payload,
                                     !.isEvm = begun.isEvm,
                                     !.payload = begun.completePayload]
          /\ signed' = <<begun.message>>
    /\ UNCHANGED <<clientSigner, clockMs, otherThanSigning>>

\* The signer returns: signGrant returns the grant, createGrant the grant
\* and its share code.
SignerReturns ==
    /\ cg.pc = "signing"
    /\ \E signature \in SignaturesOf(cg.isEvm) :
          LET grant == SignedGrantOf(cg.payload, signature, cg.isEvm) IN
          cg' = [cg EXCEPT
                   !.pc = "done",
                   !.out = IF cg.op = "signGrant" THEN Ret(grant)
                           ELSE Ret(JObj(<< <<"grant", grant>>,
                                            <<"shareCode",
                                              JStr(grantToShareCode(grant))>> >>))]
    /\ UNCHANGED <<clientSigner, signed, cgcount, clockMs, otherThanSigning>>

\* The signer rejects: the call rejects.
SignerThrows ==
    /\ cg.pc = "signing"
    /\ cg' = [cg EXCEPT !.pc = "done", !.out = Throw("User rejected the request")]
    /\ UNCHANGED <<clientSigner, signed, cgcount, clockMs, otherThanSigning>>

\* A client as constructed, with or without a signer.
SigningInit ==
    /\ clientSigner \in Signers \cup {JUndef}
    /\ cg = NoSigning
    /\ signed = <<>>
    /\ cgcount = 0

SigningIdle ==
    /\ clientSigner = JUndef
    /\ cg = NoSigning
    /\ signed = <<>>
    /\ cgcount = 0

-----------------------------------------------------------------------------
(* ZkStash.request, buildAuthHeaders and the REST operations built on them. *)

MaxRequests == 1

baseUrl == "https://api.zkstash.ai"

\* createHash("sha256").update(text).digest("hex"), in small: one byte, the
\* checksum of the text's bytes.
sha256Hex(text) == ByteToHex(MessageDigest(BufferFromString(text)))

\* { ...a, ...b } of two objects
Spread(a, b) ==
    LET kept == SelectSeq(a.o, LAMBDA kv : TRUE)
        fresh == SelectSeq(b.o, LAMBDA kv : ~HasKey(a, kv[1]))
    IN  JObj([i \in 1..Len(kept) |->
                IF HasKey(b, kept[i][1]) THEN <<kept[i][1], Get(b, kept[i][1])>>
                ELSE kept[i]] \o fresh)

\* options?.scope ?? "all"
ScopeOf(options) ==
    LET scope == OptGet(options, "scope") IN
    IF scope.t \in {"undefined", "null"} THEN "all" ELSE scope.s

\* Mutation: the per-request grants come first.
grantsToIncludeGivenFirst(scope, stored, options) ==
    LET given == OptGet(options, "grants") IN
    IF scope = "own" THEN <<>>
    ELSE (IF given.t \in {"undefined", "null"} THEN <<>> ELSE given.a) \o stored

\* scope === "own" ? [] : [...this.instanceGrants, ...(options?.grants ?? [])]
grantsToInclude(scope, stored, options) ==
    LET given == OptGet(options, "grants") IN
    IF scope = "own" THEN <<>>
    ELSE stored \o (IF given.t \in {"undefined", "null"} THEN <<>> ELSE given.a)

\* Buffer.from(JSON.stringify(grants)).toString("base64")
GrantsHeader(grants) == ToBase64(BufferFromString(JSONStringify(JArr(grants))))

\* Mutation: the header carries the per-request grants alone.
extraHeadersGivenOnly(scope, stored, options) ==
    LET grants == grantsToInclude(scope, <<>>, options) IN
    IF Len(grants) > 0
    THEN JObj(<< <<"x-grants", JStr(GrantsHeader(grants))>> >>)
    ELSE JObj(<<>>)

\* The extra headers of searchMemories and batchSearchMemories.
extraHeaders(scope, stored, options) ==
    LET grants == grantsToInclude(scope, stored, options) IN
    IF Len(grants) > 0
    THEN JObj(<< <<"x-grants", JStr(GrantsHeader(grants))>> >>)
    ELSE JObj(<<>>)

\* The search every search call of the model asks for: a query, no filters.
SearchParams == JObj(<< <<"query", JStr("notes")>>, <<"filters", JObj(<<>>)>> >>)

\* searchMemories(params, options): what it hands to request.
searchMemories(stored, options) ==
    LET scope == ScopeOf(options)
        qs == "query=" \o Get(SearchParams, "query").s
                \o (IF scope # "all" THEN "&scope=" \o scope ELSE "")
    IN  [path |-> "/memories/search?" \o qs,
         method |-> "GET",
         body |-> JUndef,
         headers |-> extraHeaders(scope, stored, options)]

\* batchSearchMemories(queries, options): what it hands to request.
batchSearchMemories(stored, options) ==
    LET scope == ScopeOf(options) IN
    [path |-> "/memories/batch/search",
     method |-> "POST",
     body |-> JObj(<< <<"queries", JArr(<<SearchParams>>)>>,
                      <<"scope", JStr(scope)>> >>),
     headers |-> extraHeaders(scope, stored, options)]

\* The options of a search: a scope or none, per-request grants or none.
SearchScopes == {JUndef, JStr("own"), JStr("shared")}

RequestGrant ==
    GrantOf([f |-> JStr("0xC"), g |-> JStr("0xB"), a |-> AbsentKey,
             u |-> AbsentKey, e |-> JNum(99)], "0x7", "evm")

SearchOptions ==
    {JUndef}
      \cup ({JObj(SelectSeq(<< <<"scope", scope>>, <<"grants", grants>> >>,
                            LAMBDA kv : kv[2] # JUndef)) :
               scope \in SearchScopes, grants \in {JUndef, JArr(<<RequestGrant>>)}}
             \ {JObj(<<>>)})

\* The other operations: what each hands to request (no extra headers).
RestOperations ==
    {[op |-> "getMemory", path |-> "/memories/mem-1", method |-> "GET",
      body |-> JUndef, headers |-> JUndef],
     [op |-> "updateMemory", path |-> "/memories/mem-1", method |-> "PATCH",
      body |-> JObj(<< <<"tags", JArr(<<JStr("x")>>)>> >>), headers |-> JUndef]}

\* request: opts.body && method !== "GET" ? JSON.stringify(opts.body) : undefined
BodyJson(method, body) ==
    IF Truthy(body) /\ method # "GET" THEN JStr(JSONStringify(body)) ELSE JUndef

\* buildAuthHeaders with an API key.
BearerHeaders(key) == JObj(<< <<"Authorization", JStr("Bearer " \o key)>> >>)

\* buildAuthHeaders with a signer: the text it signs.
Canonical(method, path, body, timestamp) ==
    Join(<<method, path, sha256Hex(body), timestamp>>, "|")

WalletHeaders(address, timestamp, signature) ==
    JObj(<< <<"x-wallet-address", JStr(address)>>,
            <<"x-wallet-timestamp", JStr(timestamp)>>,
            <<"x-wallet-signature", JStr(signature)>> >>)

\* request: the headers of its fetch call.
RequestHeaders(authHeaders, optsHeaders) ==
    Spread(Spread(JObj(<< <<"content-type", JStr("application/json")>> >>),
                  authHeaders),
           IF optsHeaders.t \in {"undefined", "null"} THEN JObj(<<>>) ELSE optsHeaders)

\* The responses of the fetch function: res.ok is a status of 200 to 299.
Responses ==
    {[status |-> 200, statusText |-> "OK", text |-> "{\"count\":2}"],
     [status |-> 500, statusText |-> "Internal Server Error",
      text |-> "{\"error\":\"boom\"}"]}

Ok(res) == res.status >= 200 /\ res.status <= 299

\* Mutation: the body of every response is parsed.
AfterResponseUnchecked(res) == JSONParse(res.text)

\* request, once fetch has resolved: an error for a response that is not ok,
\* else the parsed body (res.json() rejects for a body that is no JSON).
AfterResponse(res) ==
    IF ~Ok(res)
    THEN Throw("API error (" \o NatToString(res.status) \o " " \o res.statusText
                 \o "): " \o res.text)
    ELSE JSONParse(res.text)

NoRequest ==
    [pc |-> "idle", op |-> "none", options |-> JUndef, stored |-> <<>>,
     path |-> "", method |-> "", body |-> JUndef, headers |-> JUndef,
     timestamp |-> "", canonical |-> "", fetched |-> <<>>, res |-> JNull,
     out |-> Pending]

\* A REST operation is called; request runs up to its await of
\* buildAuthHeaders, which has read the clock and handed the canonical text to
\* the signer if it signs.
Begin(op, handed, stored, options) ==
    /\ rq.pc \in {"idle", "done"}
    /\ rqcount < MaxRequests
    /\ rqcount' = rqcount + 1
    /\ rq' = [NoRequest EXCEPT
                !.pc = "auth",
                !.op = op,
                !.options = options,
                !.stored = stored,
                !.path = handed.path,
                !.method = handed.method,
                !.body = BodyJson(handed.method, handed.body),
                !.headers = handed.headers,
                !.timestamp = IF Truthy(apiKey) THEN "" ELSE NatToString(clockMs),
                !.canonical =
                    IF Truthy(apiKey) \/ clientSigner = JUndef THEN ""
                    ELSE LET bodyJson == BodyJson(handed.method, handed.body) IN
                         Canonical(handed.method, handed.path,
                                   IF bodyJson = JUndef THEN "" ELSE bodyJson.s,
                                   NatToString(clockMs))]
    /\ UNCHANGED <<apiKey, otherThanRest>>

SearchMemories ==
    \E options \in SearchOptions :
        Begin("searchMemories", searchMemories(instanceGrants, options),
              instanceGrants, options)

BatchSearchMemories ==
    \E options \in SearchOptions :
        Begin("batchSearchMemories", batchSearchMemories(instanceGrants, options),
              instanceGrants, options)

RestCall ==
    \E o \in RestOperations :
        Begin(o.op, [path |-> o.path, method |-> o.method, body |-> o.body,
                     headers |-> o.headers],
              instanceGrants, JUndef)

\* The fetch call of request, given the auth headers.
FetchCall(authHeaders) ==
    [url |-> baseUrl \o rq.path,
     method |-> rq.method,
     headers |-> RequestHeaders(authHeaders, rq.headers),
     body |-> IF rq.method = "GET" THEN JUndef ELSE rq.body]

\* buildAuthHeaders resolves (with the key, or with the signer's signature of
\* the canonical text) and request calls fetch.
AuthReturns ==
    /\ rq.pc = "auth"
    /\ \/ /\ Truthy(apiKey)
          /\ rq' = [rq EXCEPT !.pc = "fetching",
                              !.fetched = Append(@, FetchCall(BearerHeaders(apiKey.s)))]
       \/ /\ ~Truthy(apiKey)
          /\ clientSigner # JUndef
          /\ \E signature \in SignaturesOf(StartsWith(clientSigner.address, "0x")) :
                rq' = [rq EXCEPT
                         !.pc = "fetching",
                         !.fetched = Append(@, FetchCall(
                             WalletHeaders(clientSigner.address, rq.timestamp,
                                           signature)))]
    /\ UNCHANGED <<apiKey, rqcount, otherThanRest>>

\* buildAuthHeaders rejects (no signer, or the signer rejects): so does request,
\* without a fetch call.
AuthThrows ==
    /\ rq.pc = "auth"
    /\ ~Truthy(apiKey)
    /\ rq' = [rq EXCEPT
                !.pc = "done",
                !.out = IF clientSigner = JUndef
                        THEN Throw("Signer not available for wallet auth")
                        ELSE Throw("User rejected the request")]
    /\ UNCHANGED <<apiKey, rqcount, otherThanRest>>

\* fetch resolves with a response.
FetchResponds ==
    /\ rq.pc = "fetching"
    /\ \E res \in Responses :
          rq' = [rq EXCEPT !.pc = "done", !.res = res, !.out = AfterResponse(res)]
    /\ UNCHANGED <<apiKey, rqcount, otherThanRest>>

\* fetch rejects: request rethrows.
FetchRejects ==
    /\ rq.pc = "fetching"
    /\ rq' = [rq EXCEPT !.pc = "done", !.out = Throw("TypeError: fetch failed")]
    /\ UNCHANGED <<apiKey, rqcount, otherThanRest>>

ApiKeys == {JStr("zk_live_1")}

\* A client as constructed: with an API key, a signer or both.
RestInit ==
    /\ apiKey \in ApiKeys \cup {JUndef}
    /\ rq = NoRequest
    /\ rqcount = 0

\* The grants added and removed while the client searches: two grants of
\* different payloads, the EVM-signed one of them also removed.
SearchGrants ==
    {GrantOf([f |-> JStr("0xA"), g |-> JStr("0xB"), a |-> JStr("a1"),
              u |-> AbsentKey, e |-> JNum(17)], "0x1", "evm"),
     GrantOf([f |-> JStr("SoA"), g |-> JStr("0xB"), a |-> AbsentKey,
              u |-> JStr("t1"), e |-> JNum(18)], "c2k=", "sol")}

AddSearchGrant == AddGrantOf(SearchGrants)

RemoveSearchGrant == RemoveGrantOf({g \in SearchGrants : Get(g, "c").s = "evm"})

RestIdle ==
    /\ apiKey = JStr("zk_live_1")
    /\ rq = NoRequest
    /\ rqcount = 0

-----------------------------------------------------------------------------
(* ZkStash.verifyMemoryIntegrity (client.ts).                               *)

systemFields ==
    <<"agentId", "threadId", "kind", "tags", "confidence", "expiresAt", "updatedAt",
      "contentHash">>

\* a || b
OrElse(a, b) == IF Truthy(a) THEN a ELSE b

\* memory.data || Object.fromEntries(entries of metadata outside systemFields)
IntegrityData(memory, metadata) ==
    OrElse(Get(memory, "data"),
           JObj(SelectSeq(metadata.o, LAMBDA kv : IndexOf(systemFields, kv[1]) = -1)))

\* "0x" + sha256-hex of stableStringify({ kind: memory.kind, data, agentId })
ComputedHash(memory) ==
    LET metadata == OrElse(Get(memory, "metadata"), JObj(<<>>))
        content == stableStringify(
                       JObj(<< <<"kind", Get(memory, "kind")>>,
                               <<"data", IntegrityData(memory, metadata)>>,
                               <<"agentId", Get(metadata, "agentId")>> >>))
    IN  "0x" \o sha256Hex(content)

\* Mutation: a memory with a stored hash is intact.
IntactWhenStored(storedHash, computedHash) == storedHash # JNull

\* storedHash === computedHash
Intact(storedHash, computedHash) == storedHash = JStr(computedHash)

\* verifyMemoryIntegrity(memory), at time now
verifyMemoryIntegrity(memory, now) ==
    LET metadata == OrElse(Get(memory, "metadata"), JObj(<<>>))
        storedHash == OrElse(Get(metadata, "contentHash"), JNull)
        computedHash == ComputedHash(memory)
    IN  JObj(<< <<"intact", JBool(Intact(storedHash, computedHash))>>,
                <<"storedHash", storedHash>>,
                <<"computedHash", JStr(computedHash)>>,
                <<"verifiedAt", JNum(now)>> >>)

\* The memories verified: with data of their own or with the data kept in the
\* metadata, with or without metadata and agent; each without a stored hash,
\* with an empty one, with another memory's hash and with its own.
MemoryData == {JUndef, JObj(<< <<"text", JStr("hi")>>, <<"id", JStr("m1")>> >>)}

MemoryMetadata ==
    {JUndef,
     JObj(<< <<"threadId", JStr("t1")>>, <<"note", JStr("x")>>,
             <<"agentId", JStr("a1")>> >>)}

MemoryOf(data, metadata) ==
    JObj(SelectSeq(<< <<"kind", JStr("note")>>, <<"data", data>>,
                      <<"metadata", metadata>> >>,
                   LAMBDA kv : kv[2] # JUndef))

WithContentHash(memory, hash) ==
    Set(memory, "metadata",
        Set(OrElse(Get(memory, "metadata"), JObj(<<>>)), "contentHash", hash))

Memories ==
    UNION {{memory,
            WithContentHash(memory, JStr("")),
            WithContentHash(memory, JStr("0x" \o sha256Hex("other"))),
            WithContentHash(memory, JStr(ComputedHash(memory)))} :
              memory \in {MemoryOf(data, metadata) :
                            data \in MemoryData, metadata \in MemoryMetadata}}

VerifyMemoryIntegrity ==
    /\ \E memory \in Memories :
          /\ uin' = memory
          /\ uout' = Ret(verifyMemoryIntegrity(memory, clockMs))
    /\ uop' = "verifyMemoryIntegrity"
    /\ UNCHANGED otherThanUtil

-----------------------------------------------------------------------------
(* Each specification runs one component; the others stay as constructed.   *)

UtilIdle ==
    /\ uop = "none"
    /\ uin = JUndef
    /\ uout = Pending

\* One wrapper, left alone by the specifications that are not about it.
PayIdle ==
    /\ maxPayment = DefaultMaxPayment
    /\ paymentSigner = [address |-> "0xf39F", chainNetwork |-> JStr("base-sepolia")]
    /\ ppc = "idle"
    /\ params = JUndef
    /\ invoked = <<>>
    /\ returned = <<>>
    /\ headers = <<>>
    /\ pret = Pending
    /\ pcalls = 0
    /\ proofs = 0

ClientIdle == VerifierInit /\ GrantsInit /\ SigningIdle /\ RestIdle

-----------------------------------------------------------------------------
(* The utilities as operations: an input is drawn, the function is applied. *)


InitDuration ==
    /\ uop = "parseDuration"
    /\ uin \in DurationTexts
    /\ uout = Pending
    /\ PayIdle
    /\ ClientIdle

ApplyParseDuration ==
    /\ uop = "parseDuration"
    /\ uout = Pending
    /\ uout' = parseDuration(uin)
    /\ UNCHANGED <<uop, uin>>
    /\ UNCHANGED otherThanUtil

NextDuration == ApplyParseDuration

SpecDuration == InitDuration /\ [][NextDuration]_vars

\* Two payloads with equal fields: one in any key order, one in the reverse.
InitGrantMessage ==
    /\ uop = "buildGrantMessage"
    /\ \E p \in GrantPayloads : uin = <<p, JObj(Reverse(p.o))>>
    /\ uout = Pending
    /\ PayIdle
    /\ ClientIdle

ApplyBuildGrantMessage ==
    /\ uop = "buildGrantMessage"
    /\ uout = Pending
    /\ uout' = Ret(<<buildGrantMessage(uin[1]), buildGrantMessage(uin[2])>>)
    /\ UNCHANGED <<uop, uin>>
    /\ UNCHANGED otherThanUtil

NextGrantMessage == ApplyBuildGrantMessage

SpecGrantMessage == InitGrantMessage /\ [][NextGrantMessage]_vars

InitShareCode ==
    /\ uop = "grantToShareCode"
    /\ uin \in ShareGrants
    /\ uout = Pending
    /\ PayIdle
    /\ ClientIdle

\* grantToShareCode(uin)
ApplyGrantToShareCode ==
    /\ uop = "grantToShareCode"
    /\ uout = Pending
    /\ uout' = Ret(grantToShareCode(uin))
    /\ UNCHANGED <<uop, uin>>
    /\ UNCHANGED otherThanUtil

\* grantFromShareCode of the code just made; uin keeps the grant it was made of.
ApplyGrantFromShareCode ==
    /\ uop = "grantToShareCode"
    /\ uout.k = "return"
    /\ uop' = "grantFromShareCode"
    /\ uout' = [k |-> "decoded", code |-> uout.v, d |-> grantFromShareCode(uout.v)]
    /\ UNCHANGED uin
    /\ UNCHANGED otherThanUtil

NextShareCode == ApplyGrantToShareCode \/ ApplyGrantFromShareCode

SpecShareCode == InitShareCode /\ [][NextShareCode]_vars

-----------------------------------------------------------------------------
(* The payment wrapper, the verifier and the grant set as specifications.   *)

\* The values stableStringify is given: an object of four of six keys in any
\* order, holding under its keys a string, an array of strings, a nested
\* object (its three keys in any order), an array that holds the nested
\* object, a number and null; and next to it the same value with the keys of
\* both objects in the reverse order.
StableKeyUniverse == {"id", "kind", "tags", "alpha", "Zed", "ids"}

StableKeySets == {keys \in SUBSET StableKeyUniverse : Cardinality(keys) = 4}

InnerObjects ==
    {JObj([i \in 1..3 |-> <<q[i], JStr(q[i] \o "-1")>>]) : q \in Orders({"kind", "id", "x"})}

StableMember(key, inner) ==
    CASE key = "id" -> JStr("mem-1")
      [] key = "kind" -> inner
      [] key = "tags" -> JArr(<<JStr("b"), JStr("a"), JStr("c")>>)
      [] key = "alpha" -> JArr(<<inner, JNum(-2), JArr(<<>>)>>)
      [] key = "Zed" -> JNull
      [] key = "ids" -> JBool(TRUE)

StableValue(q, inner) == JObj([i \in 1..Len(q) |-> <<q[i], StableMember(q[i], inner)>>])

StableInputs ==
    {<<StableValue(q, inner), StableValue(Reverse(q), JObj(Reverse(inner.o)))>> :
        q \in UNION {Orders(keys) : keys \in StableKeySets}, inner \in InnerObjects}

InitStable ==
    /\ uop = "stableStringify"
    /\ uin \in StableInputs
    /\ uout = Pending
    /\ PayIdle
    /\ ClientIdle

ApplyStableStringify ==
    /\ uop = "stableStringify"
    /\ uout = Pending
    /\ uout' = Ret(<<stableStringify(uin[1]), stableStringify(uin[2])>>)
    /\ UNCHANGED <<uop, uin>>
    /\ UNCHANGED otherThanUtil

NextStable == ApplyStableStringify

SpecStable == InitStable /\ [][NextStable]_vars

InitPayment == PayInit /\ UtilIdle /\ ClientIdle

NextPayment ==
    \/ CallTool
    \/ FirstReturns
    \/ FirstThrows
    \/ HeaderReturns
    \/ HeaderThrows
    \/ RetryReturns
    \/ RetryThrows

SpecPayment == InitPayment /\ [][NextPayment]_vars

InitVerifier ==
    VerifierInit /\ GrantsInit /\ SigningIdle /\ RestIdle /\ UtilIdle /\ PayIdle

NextVerifier ==
    \/ \E c \in Callers : VerifyAttestation(c)
    \/ \E c \in Callers : KeyFetchReturns(c)
    \/ \E c \in Callers : KeyFetchThrows(c)
    \/ Tick

SpecVerifier == InitVerifier /\ [][NextVerifier]_vars

InitGrants ==
    GrantsInit /\ VerifierInit /\ SigningIdle /\ RestIdle /\ UtilIdle /\ PayIdle

NextGrants == AddGrant \/ RemoveGrant

SpecGrants == InitGrants /\ [][NextGrants]_vars

InitSigning ==
    SigningInit /\ VerifierInit /\ GrantsInit /\ RestIdle /\ UtilIdle /\ PayIdle

NextSigning ==
    \/ CreateGrant
    \/ SignGrant
    \/ SignerReturns
    \/ SignerThrows
    \/ Tick

SpecSigning == InitSigning /\ [][NextSigning]_vars

\* A client with an API key or else with an EVM signer (its constructor
\* rejects a client with neither) that searches while grants come and go.
InitRest ==
    /\ RestInit
    /\ clientSigner \in {signer \in Signers : StartsWith(signer.address, "0x")}
                          \cup {JUndef}
    /\ Truthy(apiKey) # (clientSigner # JUndef)
    /\ cg = NoSigning
    /\ signed = <<>>
    /\ cgcount = 0
    /\ VerifierInit
    /\ GrantsInit
    /\ UtilIdle
    /\ PayIdle

NextRest ==
    \/ AddSearchGrant
    \/ RemoveSearchGrant
    \/ SearchMemories
    \/ BatchSearchMemories
    \/ RestCall
    \/ AuthReturns
    \/ AuthThrows
    \/ FetchResponds
    \/ FetchRejects

SpecRest == InitRest /\ [][NextRest]_vars

\* A client, with a verification key cached or not, that verifies memories
\* while grants are added and time passes.
InitIntegrity ==
    /\ cachedPublicKey \in {JNull, JStr(ServerKey)}
    /\ keyFetches = IF cachedPublicKey = JNull THEN 0 ELSE 1
    /\ clockMs = StartMs
    /\ vcalls = [c \in Callers |-> NoCall]
    /\ vcount = 0
    /\ GrantsInit
    /\ SigningIdle
    /\ RestIdle
    /\ UtilIdle
    /\ PayIdle

NextIntegrity ==
    \/ VerifyMemoryIntegrity
    \/ AddSearchGrant
    \/ Tick

SpecIntegrity == InitIntegrity /\ [][NextIntegrity]_vars

\* A client made from a private key, on which grants are created, added,
\* removed and read, searches run and attestations are verified, a bounded
\* number of operations in all.
MaxInstanceOps == 3

OpsBegun == gops + cgcount + vcount + rqcount

MayBegin == OpsBegun < MaxInstanceOps

InstanceCreateOptions ==
    {JObj(<< <<"grantee", JStr("0xBBB")>>, <<"expiresIn", JStr("7d")>> >>),
     JObj(<< <<"grantee", JStr("0xBBB")>>, <<"agentId", JStr("agent-1")>>,
             <<"expiresAt", JNum(1735689600)>> >>)}

InitInstance ==
    /\ apiKey = JUndef
    /\ rq = NoRequest
    /\ rqcount = 0
    /\ clientSigner \in {signer \in Signers : StartsWith(signer.address, "0x")}
    /\ cg = NoSigning
    /\ signed = <<>>
    /\ cgcount = 0
    /\ VerifierInit
    /\ GrantsInit
    /\ UtilIdle
    /\ PayIdle

NextInstance ==
    \/ MayBegin /\ AddSearchGrant
    \/ MayBegin /\ RemoveSearchGrant
    \/ MayBegin /\ GetInstanceGrants
    \/ ModifyReturned
    \/ MayBegin /\ CreateGrantOf(InstanceCreateOptions)
    \/ SignerReturns
    \/ SignerThrows
    \/ MayBegin /\ SearchMemories
    \/ MayBegin /\ BatchSearchMemories
    \/ AuthReturns
    \/ AuthThrows
    \/ FetchResponds
    \/ FetchRejects
    \/ \E c \in Callers : MayBegin /\ VerifyAttestation(c)
    \/ \E c \in Callers : KeyFetchReturns(c)
    \/ \E c \in Callers : KeyFetchThrows(c)

SpecInstance == InitInstance /\ [][NextInstance]_vars

-----------------------------------------------------------------------------
(* Properties of the utilities.                                             *)

KeySet(obj) == {obj.o[i][1] : i \in 1..Len(obj.o)}

\* Structural equality of two values: objects agree on every key, a key that
\* is left out counting as one whose value is undefined; key order is ignored.
RECURSIVE StructEq(_, _)
StructEq(a, b) ==
    IF a.t = "object" /\ b.t = "object"
    THEN \A key \in KeySet(a) \cup KeySet(b) : StructEq(Get(a, key), Get(b, key))
    ELSE a = b

\* C7: the share code of a grant begins with "zkg1_", and decoding it gives
\* back a grant structurally equal to the one encoded.
C7_ShareCodeRoundTrip ==
    /\ (uop = "grantToShareCode" /\ uout.k = "return")
          => StartsWith(uout.v, "zkg1_")
    /\ uop = "grantFromShareCode"
          => /\ StartsWith(uout.code, "zkg1_")
             /\ uout.d.k = "return"
             /\ StructEq(uout.d.v, uin)

\* The grant of the repository's share-code test, encoded and decoded; and a
\* grant whose optional keys are present with the value undefined.
C7_Witness ==
    /\ uop = "grantFromShareCode"
    /\ uout.code = "zkg1_eyJwIjp7ImYiOiIweEFBQSIsImciOiIweEJCQiIsImEiOiJhZ2VudC0xIiwiZSI6MTczNTY4OTYwMH0sInMiOiIweDEyMzQ1NiIsImMiOiJldm0ifQ"
    /\ uout.d = Ret(uin)
    /\ Get(Get(uin, "p"), "a") = JStr("agent-1")

\* The keys of an object are in strictly ascending order.
KeysAscending(obj) ==
    \A i \in 1..(Len(obj.o) - 1) : StrLess(obj.o[i][1], obj.o[i + 1][1])

DefinedKeys(obj) == {key \in KeySet(obj) : Get(obj, key) # JUndef}

\* C9: the grant message is "zkstash:grant:v1:" followed by the base64 of the
\* JSON of the payload's defined entries in ascending key order; payloads with
\* equal fields in different key orders give the same message.
C9_GrantMessageCanonical ==
    (uop = "buildGrantMessage" /\ uout.k = "return") =>
        LET message == uout.v[1]
            payload == uin[1]
            body == SliceFrom(message, Len("zkstash:grant:v1:"))
            decoded == JSONParse(BufferToString(BufferFromBase64(body)))
        IN  /\ uout.v[1] = uout.v[2]
            /\ StartsWith(message, "zkstash:grant:v1:")
            /\ Len(body) % 4 = 0
            /\ decoded.k = "return"
            /\ IsObj(decoded.v)
            /\ KeysAscending(decoded.v)
            /\ KeySet(decoded.v) = DefinedKeys(payload)
            /\ \A key \in DefinedKeys(payload) :
                   Get(decoded.v, key) = Get(payload, key)
            /\ DefinedKeys(payload) = {"f", "g", "e"}
                   => Keys(decoded.v) = <<"e", "f", "g">>
            /\ message = "zkstash:grant:v1:"
                           \o ToBase64(BufferFromString(JSONStringify(decoded.v)))

\* A payload given in the order g, a, f, e with a undefined: the message of
\* the keys e, f, g.
C9_Witness ==
    /\ uop = "buildGrantMessage"
    /\ uout.k = "return"
    /\ Keys(uin[1]) = <<"g", "a", "f", "e">>
    /\ Get(uin[1], "a") = JUndef
    /\ uout.v[1] = "zkstash:grant:v1:eyJlIjoxNzM1Njg5NjAwLCJmIjoiMHhBQUEiLCJnIjoiMHhCQkIifQ=="

\* The seconds of a unit letter.
UnitSeconds(letter) ==
    CASE letter = "s" -> 1
      [] letter = "m" -> 60
      [] letter = "h" -> 3600
      [] letter = "d" -> 86400
      [] letter = "w" -> 604800

RECURSIVE Pow10(_)
Pow10(k) == IF k = 0 THEN 1 ELSE 10 * Pow10(k - 1)

\* The number a run of decimal digits denotes.
RECURSIVE DigitSum(_, _)
DigitSum(text, i) ==
    IF i > Len(text) THEN 0
    ELSE DigitValue(CharAt(text, i)) * Pow10(Len(text) - i) + DigitSum(text, i + 1)

\* One or more decimal digits followed by exactly one unit letter.
IsDurationText(text) ==
    \E k \in 1..Len(text) :
        /\ k + 1 = Len(text)
        /\ \A i \in 1..k : CharAt(text, i) \in {"0", "1", "2", "3", "4", "5", "6", "7", "8", "9"}
        /\ CharAt(text, k + 1) \in {"s", "m", "h", "d", "w"}

DurationTable ==
    [text \in {"30s", "5m", "2h", "7d", "2w"} |->
        CASE text = "30s" -> 30
          [] text = "5m" -> 300
          [] text = "2h" -> 7200
          [] text = "7d" -> 604800
          [] text = "2w" -> 1209600]

\* C10: parseDuration returns the number times the unit's seconds for digits
\* followed by one unit letter, and throws for every other string.
C10_ParseDuration ==
    (uop = "parseDuration" /\ uout # Pending) =>
        /\ IsDurationText(uin)
              => uout = Ret(DigitSum(SubSeq(uin, 1, Len(uin) - 1), 1)
                              * UnitSeconds(CharAt(uin, Len(uin))))
        /\ ~IsDurationText(uin) => uout.k = "throw"
        /\ uin \in DOMAIN DurationTable => uout = Ret(DurationTable[uin])
        /\ uin \in {"", "7", "d", "7x", "invalid", "1.5h", "-7d", " 7d", "7d ",
                    "1h30m"} => uout.k = "throw"

C10_Witness ==
    /\ uop = "parseDuration"
    /\ uin = "10d"
    /\ uout = Ret(864000)

-----------------------------------------------------------------------------
(* Properties of the payment wrapper.                                       *)

\* The requirement the wrapper selects from a payment-required result.
SelectedFrom(result) ==
    selectPaymentRequirements(Get(X402Error(result), "accepts").a,
                              NetworkOf(paymentSigner))

\* The first attempt returned a payment-required result whose selected
\* requirement has scheme "exact" and asks for more than the maximum.
OverCap ==
    /\ Len(returned) >= 1
    /\ IsPaymentRequired(returned[1])
    /\ Get(SelectedFrom(returned[1]), "scheme") = JStr("exact")
    /\ BigInt(Get(SelectedFrom(returned[1]), "maxAmountRequired").s).k = "return"
    /\ BigInt(Get(SelectedFrom(returned[1]), "maxAmountRequired").s).v > maxPayment

\* The text of an error result.
ErrorText(result) == Get(Get(result, "content").a[1], "text").s

\* C1: when the first attempt returns a payment-required result whose
\* selected requirement has scheme "exact" and a maxAmountRequired above the
\* configured maximum, the call returns an error result (isError true, its
\* text naming the required and the allowed amount), createPaymentHeader has
\* been called zero times and the underlying tool invoked exactly once.
C1_PaymentCap ==
    OverCap =>
        /\ ppc = "done"
        /\ pret.k = "return"
        /\ Get(pret.v, "isError") = JBool(TRUE)
        /\ Includes(ErrorText(pret.v),
                    Get(SelectedFrom(returned[1]), "maxAmountRequired").s)
        /\ Includes(ErrorText(pret.v), IntToString(maxPayment))
        /\ headers = <<>>
        /\ Len(invoked) = 1
        /\ Len(returned) = 1

C1_Witness ==
    /\ OverCap
    /\ ppc = "done"
    /\ maxPayment = DefaultMaxPayment
    /\ Len(Get(X402Error(returned[1]), "accepts").a) = 2
    /\ SelectedFrom(returned[1]) # Get(X402Error(returned[1]), "accepts").a[1]

\* C2: in one call the underlying tool is invoked at most twice; when the
\* first and the second result are both payment-required, exactly two
\* invocations have happened, one payment header was generated, and the
\* second result is what the call returns.
C2_SingleRetry ==
    /\ Len(invoked) <= 2
    /\ Len(returned) <= 2
    /\ (/\ Len(returned) = 2
        /\ IsPaymentRequired(returned[1])
        /\ IsPaymentRequired(returned[2]))
          => /\ ppc = "done"
             /\ Len(invoked) = 2
             /\ Len(headers) = 1
             /\ pret = Ret(returned[2])

C2_Witness ==
    /\ Len(returned) = 2
    /\ IsPaymentRequired(returned[1])
    /\ IsPaymentRequired(returned[2])
    /\ ppc = "done"
    /\ Get(Get(invoked[2], "_meta"), "x402/payment") = JStr("eyJ4NDAyVmVyc2lvbiI6MX0")
    /\ Get(Get(invoked[2], "_meta"), "progressToken") = JStr("t1")

-----------------------------------------------------------------------------
(* Properties of the attestation verifier.                                  *)

\* The Ed25519 check of a signature over a message under a key succeeds.
Ed25519Succeeds(signature, message, key) ==
    VerifyAttempt(signature, message, key) = Ret(TRUE)

\* A step in which caller c begins a call.
Begins(c) == vcalls[c].pc # "fetching" /\ vcalls'[c] # vcalls[c]

\* C3: a verifyAttestation call on an attestation whose expiresAt is earlier
\* than the current time in seconds returns {valid: false, reason:
\* "attestation_expired"} at once, requests nothing from the network and
\* leaves the cached key as it was, whatever the cache and the signature.
C3_ExpiredFirst ==
    [][\A c \in Callers :
          (/\ Begins(c)
           /\ Get(vcalls'[c].attestation, "expiresAt").n < clockMs \div 1000)
             => /\ vcalls'[c].pc = "done"
                /\ vcalls'[c].out =
                     Ret(JObj(<< <<"valid", JBool(FALSE)>>,
                                 <<"reason", JStr("attestation_expired")>> >>))
                /\ vcalls'[c].fetch = "none"
                /\ keyFetches' = keyFetches
                /\ cachedPublicKey' = cachedPublicKey]_vars

\* An expired attestation, carrying the server's own signature over it, was
\* refused while a key was cached and after time had passed.
C3_Witness ==
    \E c \in Callers :
        /\ vcalls[c].pc = "done"
        /\ Get(vcalls[c].attestation, "expiresAt").n = 2
        /\ vcalls[c].now = 3
        /\ vcalls[c].signature \in SignaturesFor(vcalls[c].attestation)
        /\ Ed25519Succeeds(vcalls[c].signature, stableStringify(vcalls[c].attestation),
                           JStr(ServerKey))
        /\ vcalls[c].out = Ret(ExpiredResult)
        /\ cachedPublicKey = JStr(ServerKey)

\* C4: over the lifetime of a client the verification-key endpoint is
\* requested at most once, whatever verifyAttestation calls are made.
C4_KeyFetchedAtMostOnce == keyFetches <= 1

\* C5: once the cache holds a key, its value never changes.
C5_CachedKeyStable ==
    [][(cachedPublicKey.t = "string" /\ cachedPublicKey.s # "")
          => cachedPublicKey' = cachedPublicKey]_vars

\* A call on an attestation that was not expired, whose key fetch (if it
\* made one) completed.
Verified(call) ==
    /\ call.pc = "done"
    /\ ~(Get(call.attestation, "expiresAt").n < call.now)
    /\ call.fetch # "failed"

\* C6: for a non-expired attestation, once the key is there, the call returns
\* {valid: true, reason: null} when the Ed25519 check of the signature over
\* stableStringify(attestation) under the key succeeds and {valid: false,
\* reason: "invalid_signature"} in every other case, a missing or malformed
\* signature or key included; it never throws, and valid is true exactly
\* when reason is null.
C6_VerificationVerdict ==
    \A c \in Callers :
        Verified(vcalls[c]) =>
            LET call == vcalls[c] IN
            /\ call.out.k = "return"
            /\ call.out.v =
                 IF Ed25519Succeeds(call.signature,
                                    stableStringify(call.attestation), call.key)
                 THEN JObj(<< <<"valid", JBool(TRUE)>>, <<"reason", JNull>> >>)
                 ELSE JObj(<< <<"valid", JBool(FALSE)>>,
                              <<"reason", JStr("invalid_signature")>> >>)
            /\ (Get(call.out.v, "valid") = JBool(TRUE))
                 <=> (Get(call.out.v, "reason") = JNull)

\* One call was found valid while another, with no signature at all, was
\* found invalid against a response that carried no key.
C6_Witness ==
    \E c, d \in Callers :
        /\ Verified(vcalls[c])
        /\ vcalls[c].out = Ret(VerificationResult(TRUE))
        /\ Verified(vcalls[d])
        /\ vcalls[d].signature = JUndef
        /\ vcalls[d].key = JUndef
        /\ vcalls[d].out = Ret(VerificationResult(FALSE))

-----------------------------------------------------------------------------
(* Properties of the instance grant set.                                    *)

\* A string that does not begin with "zkg1_".
Unprefixed(v) ==
    /\ v.t = "string"
    /\ (Len(v.s) < 5 \/ SubSeq(v.s, 1, 5) # "zkg1_")

\* C8: grantFromShareCode throws an error whose message contains "must start
\* with zkg1_" for every string that does not begin with "zkg1_"; addGrant
\* called with such a string throws that error and leaves the instance
\* grants as they were.
C8_UnprefixedRejected ==
    (glast.op = "addGrant" /\ Unprefixed(glast.arg)) =>
        /\ grantFromShareCode(glast.arg.s).k = "throw"
        /\ Includes(grantFromShareCode(glast.arg.s).msg, "must start with zkg1_")
        /\ glast.out = grantFromShareCode(glast.arg.s)
        /\ instanceGrants = glast.before

\* A share code without its prefix was refused by a client that holds grants.
C8_Witness ==
    /\ glast.op = "addGrant"
    /\ Unprefixed(glast.arg)
    /\ Len(glast.arg.s) > 20
    /\ glast.out.k = "throw"
    /\ Len(instanceGrants) = 2

-----------------------------------------------------------------------------
(* Properties of signGrant and createGrant.                                 *)

\* The grant a completed call returned.
GrantReturned ==
    IF cg.op = "signGrant" THEN cg.out.v ELSE Get(cg.out.v, "grant")

Returned == cg.pc = "done" /\ cg.out.k = "return"

\* C11: in every grant returned by signGrant, and so by createGrant, p.f is
\* the address of the signer that signed it, whatever f the caller's payload
\* carried; the message signed is buildGrantMessage of the payload with that
\* f; and c is "evm" exactly when the address begins with "0x", "sol"
\* otherwise.
C11_GrantorIsSigner ==
    Returned =>
        /\ Get(Get(GrantReturned, "p"), "f") = JStr(cg.signer.address)
        /\ signed = <<buildGrantMessage(Get(GrantReturned, "p"))>>
        /\ Get(GrantReturned, "c") =
             JStr(IF Len(cg.signer.address) >= 2
                       /\ SubSeq(cg.signer.address, 1, 2) = "0x"
                  THEN "evm" ELSE "sol")

\* signGrant returned a grant for a payload that named another grantor.
C11_Witness ==
    /\ Returned
    /\ cg.op = "signGrant"
    /\ HasKey(cg.input, "f")
    /\ Get(cg.input, "f") # JStr(cg.signer.address)
    /\ Get(GrantReturned, "c") = JStr("sol")

\* C12: whenever options.expiresAt is supplied, the expiry e of the grant
\* createGrant returns equals options.expiresAt, whatever expiresIn says.
C12_ExpiresAtWins ==
    (Returned /\ cg.op = "createGrant" /\ HasKey(cg.input, "expiresAt")) =>
        Get(Get(GrantReturned, "p"), "e") = Get(cg.input, "expiresAt")

\* A required input of createGrant is missing or malformed: no signer, no
\* grantee, or an expiresIn text that parseDuration rejects.
InputMissing ==
    \/ cg.signer = JUndef
    \/ Get(cg.input, "grantee") \in {JUndef, JStr("")}
    \/ /\ Get(cg.input, "expiresIn").t = "string"
       /\ parseDuration(Get(cg.input, "expiresIn").s).k = "throw"

\* C16: createGrant fails, without invoking the signer and without returning
\* a grant or share code, whenever a required input is missing or malformed.
C16_CreateGrantRejects ==
    (cg.op = "createGrant" /\ InputMissing) =>
        /\ cg.pc = "done"
        /\ cg.out.k = "throw"
        /\ signed = <<>>

-----------------------------------------------------------------------------
(* Properties of the grant set under addGrant and removeGrant.              *)

\* The field of a stored value's payload; undefined where there is none.
FieldOf(grant, key) == OptGet(OptGet(grant, "p"), key)

\* Two grants have equal payloads: f, g, a, u and e are all equal.
EqualPayloads(g1, g2) ==
    \A key \in {"f", "g", "a", "u", "e"} : FieldOf(g1, key) = FieldOf(g2, key)

\* The grant the last addGrant call was given, as an object or a share code.
GrantGiven ==
    IF glast.arg.t = "string" THEN grantFromShareCode(glast.arg.s) ELSE Ret(glast.arg)

\* C13: no two grants of the instance have equal payloads; addGrant of a
\* grant whose payload equals a stored one's leaves the grants unchanged,
\* whatever its s and c; addGrant of a grant that differs from every stored
\* one in f, g, a, u or e appends it as the last element.
C13_NoDuplicatePayloads ==
    /\ \A i, j \in 1..Len(instanceGrants) :
          i # j => ~EqualPayloads(instanceGrants[i], instanceGrants[j])
    /\ (glast.op = "addGrant" /\ GrantGiven.k = "return") =>
          IF \E i \in 1..Len(glast.before) :
                 EqualPayloads(glast.before[i], GrantGiven.v)
          THEN instanceGrants = glast.before
          ELSE instanceGrants = Append(glast.before, GrantGiven.v)

\* The same, for calls in which the value given and the values stored all
\* carry a payload.
C13_AmongGrantsWithPayload ==
    (/\ glast.op = "addGrant"
     /\ GrantGiven.k = "return"
     /\ PayloadReadable(GrantGiven.v)
     /\ \A i \in 1..Len(glast.before) : PayloadReadable(glast.before[i])) =>
        C13_NoDuplicatePayloads

-----------------------------------------------------------------------------
(* Properties of the REST operations.                                       *)

IsSearch == rq.op \in {"searchMemories", "batchSearchMemories"}

\* The fetch call of a search request that has been sent.
SearchSent == IsSearch /\ Len(rq.fetched) >= 1

\* The grants a receiver reads from the x-grants header of a fetch call: the
\* JSON array in its base64 text; none when the call has no such header.
GrantsReceived(call) ==
    IF ~HasKey(call.headers, "x-grants") THEN <<>>
    ELSE LET decoded ==
                 JSONParse(BufferToString(
                     BufferFromBase64(Get(call.headers, "x-grants").s)))
         IN  IF decoded.k = "return" /\ decoded.v.t = "array" THEN decoded.v.a
             ELSE <<>>

\* The grants of options.grants.
GrantsGiven ==
    LET given == OptGet(rq.options, "grants") IN
    IF given.t = "array" THEN given.a ELSE <<>>

\* The fetch call of a search is made in this step.
SearchSends == IsSearch /\ rq.fetched = <<>> /\ rq'.fetched # <<>>

\* A search call begins in this step.
SearchBegins == rqcount' = rqcount + 1 /\ rq'.op \in {"searchMemories", "batchSearchMemories"}

SearchTakesStoredGrants == SearchBegins => rq'.stored = instanceGrants

\* The fetch call of a search with a scope other than "own" carries every
\* grant the call took, whatever was added or removed in between.
SearchSendsWhatItTook ==
    (SearchSends /\ ScopeOf(rq.options) # "own") =>
        \A received \in {GrantsReceived(rq'.fetched[1])} :
            \A i \in 1..Len(rq.stored) :
                \E j \in 1..Len(received) : received[j] = rq.stored[i]

NotOkCompleted == rq.pc = "done" /\ rq.res # JNull /\ ~Ok(rq.res)

\* A step of the running REST operation.
RequestStep == rq' # rq

\* C19: a REST operation whose response is not ok rejects with
\* "API error (<status> <statusText>): <body>", having called fetch exactly
\* once; and no step of a REST operation changes the instance grants or the
\* cached key.
C19_NotOkRejects ==
    /\ [](NotOkCompleted =>
            /\ rq.out = Throw("API error (" \o NatToString(rq.res.status) \o " "
                                \o rq.res.statusText \o "): " \o rq.res.text)
            /\ Len(rq.fetched) = 1)
    /\ [][RequestStep => UNCHANGED <<instanceGrants, cachedPublicKey>>]_vars

\* An update was answered 500 and has completed.
C19_Witness ==
    /\ NotOkCompleted
    /\ rq.op = "updateMemory"
    /\ rq.res.status = 500
    /\ rq.out.k = "throw"

-----------------------------------------------------------------------------
(* Properties of stableStringify.                                           *)

\* The place of a key in the order the claim names: id, kind, tags, the rest.
KeyRank(key) ==
    IF key = "id" THEN 0 ELSE IF key = "kind" THEN 1 ELSE IF key = "tags" THEN 2 ELSE 3

KeyPrecedes(a, b) ==
    \/ KeyRank(a) < KeyRank(b)
    \/ KeyRank(a) = 3 /\ KeyRank(b) = 3 /\ StrLess(a, b)

\* Every object of a value, at every level, has its keys in that order.
RECURSIVE KeysOrderedThroughout(_)
KeysOrderedThroughout(v) ==
    IF v.t = "object"
    THEN /\ \A i \in 1..(Len(v.o) - 1) : KeyPrecedes(v.o[i][1], v.o[i + 1][1])
         /\ \A i \in 1..Len(v.o) : KeysOrderedThroughout(v.o[i][2])
    ELSE IF v.t = "array"
    THEN \A i \in 1..Len(v.a) : KeysOrderedThroughout(v.a[i])
    ELSE TRUE

\* Two values are equal up to the key order of their objects: arrays agree
\* element by element, in order.
RECURSIVE SameUpToKeyOrder(_, _)
SameUpToKeyOrder(a, b) ==
    IF a.t = "object" /\ b.t = "object"
    THEN /\ KeySet(a) = KeySet(b)
         /\ \A key \in KeySet(a) : SameUpToKeyOrder(Get(a, key), Get(b, key))
    ELSE IF a.t = "array" /\ b.t = "array"
    THEN /\ Len(a.a) = Len(b.a)
         /\ \A i \in 1..Len(a.a) : SameUpToKeyOrder(a.a[i], b.a[i])
    ELSE a = b

StableApplied == uop = "stableStringify" /\ uout.k = "return"

\* C17: the text stableStringify gives is JSON without whitespace that reads
\* back as the value given, array elements in their order, with the keys of
\* every object at every level in the order id, kind, tags, then the others
\* ascending; a value that differs only in key order gives the same text.
C17_StableKeyOrder ==
    StableApplied =>
        \A parsed \in {JSONParse(uout.v[1])} :
            /\ parsed.k = "return"
            /\ KeysOrderedThroughout(parsed.v)
            /\ SameUpToKeyOrder(parsed.v, uin[1])
            /\ \A i \in 1..Len(uout.v[1]) : CharAt(uout.v[1], i) \notin {" ", "\n", "\t"}
            /\ uout.v[1] = uout.v[2]

\* stableStringify was applied to an object given with its keys out of
\* order, the nested object under kind and in the array under alpha as well.
C17_Witness ==
    /\ StableApplied
    /\ Keys(uin[1]) = <<"alpha", "tags", "kind", "id">>
    /\ Keys(Get(uin[1], "kind")) = <<"x", "kind", "id">>
    /\ Keys(uin[2]) = <<"id", "kind", "tags", "alpha">>

-----------------------------------------------------------------------------
(* Properties of verifyMemoryIntegrity.                                     *)

IntegrityVerified == uop = "verifyMemoryIntegrity" /\ uout.k = "return"

\* The hash stored with the memory verified: undefined when it has none.
StoredContentHash == OptGet(Get(uin, "metadata"), "contentHash")

\* A call of verifyMemoryIntegrity completes in this step.
IntegrityStep == uop' = "verifyMemoryIntegrity" /\ <<uop, uin, uout>>' # <<uop, uin, uout>>

\* C18: verifyMemoryIntegrity calls no fetch and changes neither the instance
\* grants nor the cached key; its intact is true exactly when the stored
\* metadata.contentHash equals the recomputed hash, and with no stored hash it
\* gives intact false and storedHash null.
C18_IntegrityIsLocal ==
    /\ [](IntegrityVerified =>
            /\ Get(uout.v, "computedHash") = JStr(ComputedHash(uin))
            /\ Get(uout.v, "intact") =
                 JBool(StoredContentHash = Get(uout.v, "computedHash"))
            /\ StoredContentHash \in {JUndef, JStr("")} =>
                 /\ Get(uout.v, "intact") = JBool(FALSE)
                 /\ Get(uout.v, "storedHash") = JNull)
    /\ [][IntegrityStep =>
            UNCHANGED <<instanceGrants, cachedPublicKey, keyFetches, rq, vcalls>>]_vars

\* A memory without data of its own was verified against its own stored hash
\* on a client that holds a grant and a cached key.
C18_Witness ==
    /\ IntegrityVerified
    /\ ~HasKey(uin, "data")
    /\ Get(uout.v, "intact") = JBool(TRUE)
    /\ Len(instanceGrants) >= 1
    /\ cachedPublicKey # JNull

-----------------------------------------------------------------------------
(* The first result of callTool that asks for no payment.                   *)

\* The result is not flagged isError, or carries no _meta["x402/error"] with
\* an accepts array, or that array is empty.
AsksNoPayment(result) ==
    LET meta == Get(result, "_meta")
        offer == IF meta.t = "object" THEN Get(meta, "x402/error") ELSE JUndef
        accepts == IF offer.t = "object" THEN Get(offer, "accepts") ELSE JUndef
    IN  \/ Get(result, "isError") # JBool(TRUE)
        \/ accepts.t # "array"
        \/ accepts.a = <<>>

\* C20: when the first result of the wrapped callTool asks for no payment,
\* callTool has returned that result unchanged after exactly one underlying
\* invocation and with no payment header made.
C20_FirstResultFinal ==
    (Len(returned) >= 1 /\ AsksNoPayment(returned[1])) =>
        /\ ppc = "done"
        /\ pret = Ret(returned[1])
        /\ Len(returned) = 1
        /\ Len(invoked) = 1
        /\ headers = <<>>

\* callTool returned a first result that carries offers without the error
\* flag.
C20_Witness ==
    /\ ppc = "done"
    /\ Len(returned) = 1
    /\ Get(returned[1], "isError") = JBool(FALSE)
    /\ X402Error(returned[1]) # JUndef
    /\ pret = Ret(returned[1])

(***************************************************************************)
(* The scheme gate of callTool.                                            *)
(***************************************************************************)

\* The first attempt returned a payment-required result whose selected
\* requirement is missing or has a scheme other than "exact".
OtherScheme ==
    /\ Len(returned) >= 1
    /\ IsPaymentRequired(returned[1])
    /\ \/ ~Truthy(SelectedFrom(returned[1]))
       \/ Get(SelectedFrom(returned[1]), "scheme") # JStr("exact")

\* C21: when the first attempt is payment-required and the selected
\* requirement has a scheme other than "exact" (or none is selected), the
\* call returns the first attempt's result unmodified, createPaymentHeader is
\* not called and the tool is invoked once only, whatever the requirement's
\* amount: the scheme is tested before the amount, so no cap-exceeded result
\* is made.
C21_SchemeGate ==
    OtherScheme =>
        /\ ppc = "done"
        /\ pret = Ret(returned[1])
        /\ headers = <<>>
        /\ Len(invoked) = 1
        /\ Len(returned) = 1

\* A call answered with an "upto" requirement of 100001 on a client whose
\* maximum is 10 has returned.
C21_Witness ==
    /\ OtherScheme
    /\ maxPayment = 10
    /\ SelectedFrom(returned[1]) = Requirement("base-sepolia", "upto", "100001")
    /\ ppc = "done"

(***************************************************************************)
(* The requests the wrapper sends to the underlying tool.                  *)
(***************************************************************************)

\* The retried request differs from the original in _meta["x402/payment"]
\* only, and that entry is a generated payment header.
SameButForProof(original, retried) ==
    /\ \A key \in (KeySet(original) \cup KeySet(retried)) \ {"_meta"} :
          Get(retried, key) = Get(original, key)
    /\ Get(retried, "_meta").t = "object"
    /\ \A key \in (KeySet(Get(retried, "_meta")) \ {"x402/payment"}) :
          Get(Get(retried, "_meta"), key) = OptGet(Get(original, "_meta"), key)
    /\ Get(original, "_meta").t = "object" =>
          KeySet(Get(original, "_meta")) \subseteq KeySet(Get(retried, "_meta"))
    /\ \E paymentHeader \in PaymentHeaders :
          Get(Get(retried, "_meta"), "x402/payment") = JStr(paymentHeader)

\* The requests sent so far, against the caller's params.
RequestsAsGiven ==
    /\ Len(invoked) >= 1 => invoked[1] = params
    /\ Len(invoked) = 2 => SameButForProof(params, invoked[2])

\* A step of a running call leaves the caller's params as they are.
ParamsKept == ppc \in {"first", "header", "retry"} => params' = params

\* C22: the first attempt is invoked with the caller's params as given; the
\* retried request equals the original in name, arguments and every existing
\* _meta entry, and holds the generated proof under _meta["x402/payment"];
\* the caller's params object is the same from the call to its completion.
C22_RetryRequest ==
    /\ []RequestsAsGiven
    /\ [][ParamsKept]_vars

\* A request that carries a progress token has been retried with a proof.
C22_Witness ==
    /\ Len(invoked) = 2
    /\ OptGet(Get(params, "_meta"), "progressToken") = JStr("t1")
    /\ OptGet(Get(invoked[2], "_meta"), "progressToken") = JStr("t1")
    /\ OptGet(Get(invoked[2], "_meta"), "x402/payment") # JUndef
    /\ OptGet(Get(params, "_meta"), "x402/payment") = JUndef

(***************************************************************************)
(* Failures of the underlying tool and of createPaymentHeader.             *)
(***************************************************************************)

\* The call is over and its last invocation of the tool did not return.
ToolFailed == ppc = "done" /\ Len(invoked) > Len(returned)

\* The call is over, a payment header was asked for and no retry was made.
HeaderFailed == ppc = "done" /\ Len(headers) = 1 /\ Len(invoked) = 1

\* C23: when an invocation of the underlying tool throws, on the first attempt
\* or on the retry, or createPaymentHeader throws, callTool throws that error
\* and invokes the tool no further; after a failure of the first attempt
\* createPaymentHeader has not been called.
C23_ErrorsPropagate ==
    /\ ToolFailed =>
          /\ pret = Throw("callTool failed")
          /\ Len(invoked) = Len(returned) + 1
          /\ Len(returned) = 0 => headers = <<>>
    /\ HeaderFailed =>
          /\ pret = Throw("createPaymentHeader failed")
          /\ Len(returned) = 1
    /\ (ppc = "done" /\ pret = Throw("callTool failed")) => ToolFailed
    /\ (ppc = "done" /\ pret = Throw("createPaymentHeader failed")) => HeaderFailed

\* The first attempt of a client's second call has thrown, after a first call
\* that was retried with a payment header.
C23_Witness ==
    /\ ToolFailed
    /\ returned = <<>>
    /\ pcalls = 2
    /\ proofs = 1
    /\ pret = Throw("callTool failed")

(***************************************************************************)
(* The boundary of the payment cap.                                        *)
(***************************************************************************)

\* The first attempt returned a payment-required result whose selected
\* requirement has scheme "exact" and asks for exactly the maximum.
AtCap ==
    /\ Len(returned) >= 1
    /\ IsPaymentRequired(returned[1])
    /\ Get(SelectedFrom(returned[1]), "scheme") = JStr("exact")
    /\ BigInt(Get(SelectedFrom(returned[1]), "maxAmountRequired").s) = Ret(maxPayment)

\* C28: a payment-required first attempt whose selected "exact" requirement
\* asks for exactly the configured maximum is paid: createPaymentHeader is
\* called once for that requirement and, unless it throws, the tool is
\* invoked a second time; a client built without payment.maxValue has the
\* maximum 100000.
C28_CapBoundary ==
    /\ MaxPaymentOf(JUndef) = 100000
    /\ AtCap =>
          /\ headers = <<SelectedFrom(returned[1])>>
          /\ ppc \in {"header", "retry", "done"}
          /\ ppc = "retry" => Len(invoked) = 2
          /\ ppc = "done" =>
                \/ pret = Throw("createPaymentHeader failed") /\ Len(invoked) = 1
                \/ Len(invoked) = 2

\* On a client with the default maximum a requirement of 100000 has been
\* paid and the retry has returned.
C28_Witness ==
    /\ AtCap
    /\ maxPayment = 100000
    /\ ppc = "done"
    /\ Len(invoked) = 2
    /\ Len(returned) = 2
    /\ pret = Ret(returned[2])

(***************************************************************************)
(* The wrapper across the calls of one client.                             *)
(***************************************************************************)

\* A step that begins a call sends the caller's params and nothing of the
\* calls before it.
CallBeginsAfresh ==
    pcalls' # pcalls =>
        /\ invoked' = <<params'>>
        /\ returned' = <<>>
        /\ headers' = <<>>
        /\ proofs' = proofs

\* A payment header is generated for the running call's payment-required
\* first result, once, and the retry follows it.
ProofInItsCall ==
    proofs' # proofs =>
        /\ proofs' = proofs + 1
        /\ ppc = "header"
        /\ pcalls' = pcalls
        /\ Len(invoked) = 1
        /\ Len(returned) = 1
        /\ IsPaymentRequired(returned[1])
        /\ Len(invoked') = 2
        /\ ppc' = "retry"

\* C27: in any sequence of callTool calls on one client, the first invocation
\* of each call is the caller's params, with no payment header of the wrapper
\* in it, also directly after a paid call; each call generates at most one
\* payment header, and only after its own first attempt returned
\* payment-required and before its retry.
C27_NoStateBetweenCalls ==
    /\ [](proofs <= pcalls /\ Len(headers) <= 1 /\ Len(invoked) <= 2)
    /\ [][CallBeginsAfresh /\ ProofInItsCall]_vars

\* The second call of a client has just begun, directly after a call that was
\* paid for: its first request is the caller's params, without a payment
\* header.
C27_Witness ==
    /\ pcalls = 2
    /\ proofs = 1
    /\ ppc = "first"
    /\ invoked = <<params>>
    /\ OptGet(Get(params, "_meta"), "x402/payment") = JUndef

(***************************************************************************)
(* The expiry createGrant computes from expiresIn.                         *)
(***************************************************************************)

\* The seconds the claim adds to now for the options of a call without
\* expiresAt: the count given, the duration parsed, or seven days for none.
SecondsAsked(options) ==
    LET expiresIn == Get(options, "expiresIn") IN
    IF expiresIn.t = "number" THEN Ret(expiresIn.n)
    ELSE IF expiresIn.t = "string" THEN parseDuration(expiresIn.s)
    ELSE Ret(604800)

\* A createGrant call without expiresAt has handed its payload to signGrant.
CreatesFromExpiresIn ==
    /\ cgcount' # cgcount
    /\ cg'.op = "createGrant"
    /\ cg'.pc = "signing"
    /\ ~HasKey(cg'.input, "expiresAt")
    /\ SecondsAsked(cg'.input).k = "return"

\* The step signs now + the seconds asked.
ExpiresInAdded ==
    CreatesFromExpiresIn =>
        Get(cg'.payload, "e") = JNum(NowSeconds(clockMs) + SecondsAsked(cg'.input).v)

\* The same, the count 0 set aside.
ExpiresInAddedUnlessZero ==
    (CreatesFromExpiresIn /\ Get(cg'.input, "expiresIn") # JNum(0)) =>
        Get(cg'.payload, "e") = JNum(NowSeconds(clockMs) + SecondsAsked(cg'.input).v)

\* C24: createGrant without expiresAt signs e = floor(now in seconds) + n for
\* an expiresIn that is a count n of seconds, zero included, or a duration
\* string that parseDuration turns into n, and e = now + 604800 when
\* expiresIn is absent too.
C24_ExpiresInAdded == [][ExpiresInAdded]_vars

\* The same for every expiresIn but the count 0.
C24_ExpiresInAddedUnlessZero == [][ExpiresInAddedUnlessZero]_vars

(***************************************************************************)
(* The boundary of the expiry check of verifyAttestation.                  *)
(***************************************************************************)

\* Caller c begins a call that goes past the expiry check: to the key fetch
\* when no key is cached, to the signature check otherwise.
GoesOnToVerify(c) ==
    IF ~Truthy(cachedPublicKey)
    THEN /\ vcalls'[c].pc = "fetching"
         /\ keyFetches' = keyFetches + 1
    ELSE /\ vcalls'[c].pc = "done"
         /\ vcalls'[c].key = cachedPublicKey
         /\ vcalls'[c].out \in {Ret(VerificationResult(TRUE)),
                                Ret(VerificationResult(FALSE))}

\* The call begun by c is refused as expired exactly when its attestation's
\* expiresAt is below the current time in whole seconds.
ExpiredOnlyBelowNow(c) ==
    Begins(c) =>
        IF Get(vcalls'[c].attestation, "expiresAt").n < clockMs \div 1000
        THEN vcalls'[c].out = Ret(ExpiredResult)
        ELSE GoesOnToVerify(c)

\* C29: verifyAttestation returns attestation_expired only when expiresAt <
\* floor(now / 1000); an attestation whose expiresAt equals the current time
\* in whole seconds is not expired, and the call goes on to the key fetch
\* (when no key is cached) and the signature check.
C29_ExpiryBoundary == [][\A c \in Callers : ExpiredOnlyBelowNow(c)]_vars

\* An attestation that expires in the very second of the call, at 3 s, was
\* found valid after a key fetch.
C29_Witness ==
    \E c \in Callers :
        /\ vcalls[c].pc = "done"
        /\ vcalls[c].now = 3
        /\ Get(vcalls[c].attestation, "expiresAt") = JNum(3)
        /\ vcalls[c].fetch = "returned"
        /\ vcalls[c].out = Ret(VerificationResult(TRUE))

(***************************************************************************)
(* The grant set under removeGrant.                                        *)
(***************************************************************************)

\* The stored grants whose payload differs from the given grant's, in their
\* stored order.
WithoutPayloadOf(stored, grant) ==
    SelectSeq(stored, LAMBDA g : ~EqualPayloads(g, grant))

\* C25: after removeGrant(g) the instance grants are the grants stored
\* before whose payload (f, g, a, u, e) differs from g's, in their former
\* order, whatever s and c are; when no stored payload equals g's they are
\* unchanged.
C25_RemoveByPayload ==
    glast.op = "removeGrant" =>
        /\ instanceGrants = WithoutPayloadOf(glast.before, glast.arg)
        /\ (\A i \in 1..Len(glast.before) :
               ~EqualPayloads(glast.before[i], glast.arg))
              => instanceGrants = glast.before

\* removeGrant of a grant took the first of two stored grants, one with the
\* same payload under another signature, and left the second.
C25_Witness ==
    /\ glast.op = "removeGrant"
    /\ glast.out = Ret(JUndef)
    /\ Len(glast.before) = 2
    /\ EqualPayloads(glast.before[1], glast.arg)
    /\ Get(glast.before[1], "s") # Get(glast.arg, "s")
    /\ instanceGrants = <<glast.before[2]>>

(***************************************************************************)
(* What changes the instance grant set.                                    *)
(***************************************************************************)

\* A step that changes the stored grants is an addGrant or removeGrant call.
OnlyAddAndRemoveChange ==
    instanceGrants' # instanceGrants =>
        /\ gops' = gops + 1
        /\ glast'.op \in {"addGrant", "removeGrant"}
        /\ <<cg', signed', rq', vcalls', held'>> = <<cg, signed, rq, vcalls, held>>

\* C26: the instance grant set is empty on a new instance and changes only
\* in addGrant and removeGrant calls: createGrant, searchMemories and
\* batchSearchMemories (with or without options.grants), verifyAttestation
\* and getInstanceGrants leave it as it is, and so does a change made to the
\* array getInstanceGrants returned.
C26_OnlyAddAndRemove ==
    /\ [](gops = 0 => instanceGrants = <<>>)
    /\ [][OnlyAddAndRemoveChange]_vars

\* A grant was added, then a search was given a grant of its own in
\* options.grants and completed, and the array getInstanceGrants returned
\* was changed by its caller: the set holds the added grant alone.
C26_Witness ==
    /\ Len(instanceGrants) = 1
    /\ held # JUndef
    /\ held.touched
    /\ held.array # instanceGrants
    /\ rq.pc = "done"
    /\ rq.op \in {"searchMemories", "batchSearchMemories"}
    /\ OptGet(rq.options, "grants") # JUndef

(***************************************************************************)
(* What the instance grant set holds.                                      *)
(***************************************************************************)

\* The last call was addGrant or removeGrant with a grant object of the
\* client's, signature and payload in place.
ValidGrantGiven == glast.op \in {"addGrant", "removeGrant"} /\ glast.arg \in ClientGrants

\* C30: every stored element has a payload p; an addGrant call that throws
\* leaves the set unchanged, and no addGrant or removeGrant call with a valid
\* grant throws, whatever share codes were added before, those that decode
\* to JSON without p or to null included.
C30_StoredGrantsHavePayload ==
    /\ \A i \in 1..Len(instanceGrants) : PayloadReadable(instanceGrants[i])
    /\ (glast.op = "addGrant" /\ glast.out.k = "throw") => instanceGrants = glast.before
    /\ ValidGrantGiven => glast.out.k = "return"

\* The same, for the calls at which every stored element carries a payload.
C30_AmongGrantsWithPayload ==
    /\ (glast.op = "addGrant" /\ glast.out.k = "throw") => instanceGrants = glast.before
    /\ (/\ ValidGrantGiven
        /\ \A i \in 1..Len(glast.before) : PayloadReadable(glast.before[i]))
          => glast.out.k = "return"

=============================================================================
